---- MODULE Spec2Model ----
(***************************************************************************)
(* QuickDesk: the vote toggle of TicketDetail and TicketList, ticket       *)
(* creation, and the assignment / status workflow of SupportAgentDashboard *)
(* behind the Dashboard's views, modelled over the document store they     *)
(* read and write.                                                         *)
(*                                                                         *)
(* A "view" is one mounted instance of a React component in some browser   *)
(* tab.  Every awaited store call is a step of its own: the handler runs   *)
(* synchronously up to the await, and the step that applies the store      *)
(* call (or fails it) also runs the handler's continuation up to the next  *)
(* await.                                                                  *)
(***************************************************************************)
EXTENDS Integers, FiniteSets, Sequences, Bags, TLC

\* Largest total upvotes + downvotes a handler may write in the model (the
\* guards of handleVote cap it).
MaxCount == 1

\* Largest number of documents in the 'notifications' collection (the guards
\* of the handlers that add one cap it).
MaxNotifs == 4

\* The replies a ticket holds at most.
MaxReplies == 2

\* markAsRead / markAllAsRead calls of one feed that wait for their store write.
MaxPending == 2

Uids == {"u1", "u2"}
NoUser == "nouser"
TicketIds == {"t1"}
Kinds == {"upvote", "downvote"}
Null == "null"
Statuses == {"open", "in-progress", "resolved", "closed"}
Titles == {"Login fails"}

\* Values of the role field: the three roles, and "user", which the role
\* select of AdminPanel offers in place of "end-user".
Roles == {"end-user", "user", "support-agent", "admin"}
Views == {"dashboard", "profile", "admin", "support"}

\* The users whose role an admin edits in the model.
EditedUsers == {"u1"}

\* The ids addDoc gives to the documents of 'roleUpgradeRequests'.
RequestIds == {"r1"}

\* users/{uid}.name, and the name the profile loader falls back to
\* (displayName, or the local part of the e-mail address).
StoredName == [u \in Uids |-> IF u = "u1" THEN "Ann" ELSE "Bob"]
DisplayName == [u \in Uids |-> IF u = "u1" THEN "ann" ELSE "bob"]

\* user.email of the signed-in users.
UserEmail == [u \in Uids |-> IF u = "u1" THEN "ann@example.com" ELSE "bob@example.com"]

TDViews == {"d1"}
TLViews == {"l1"}
VoteViews == TDViews \cup TLViews

\* Who is signed in where (TicketDetail view, TicketList view), up to
\* renaming the two users: two voters, one voter in two tabs, a signed-out tab.
Logins == {<<"u1", "u2">>, <<"u1", "u1">>, <<NoUser, "u1">>, <<"u1", NoUser>>}

Max(a, b) == IF a >= b THEN a ELSE b

VARIABLES
    tickets,    \* store: collection 'tickets', ticket id -> document
    votes,      \* store: sub-collection tickets/{id}/votes, ticket id -> set of documents
    auth,       \* view -> signed-in uid, or NoUser (useAuth().user)
    td,         \* TicketDetail component state, per view
    tl,         \* TicketList component state, per view
    hv,         \* history: per view, the handleVote invocation in progress or just ended
    rt,         \* history: a voter's two consecutive upvote toggles from one view
    race,       \* history: two first upvotes that both started before either wrote
    users,      \* store: collection 'users', uid -> profile document
    notifications, \* store: collection 'notifications', a bag of documents
    dash,       \* Dashboard component state, per signed-in user
    sd,         \* SupportAgentDashboard component state, per signed-in user
    fw,         \* history: the write a handler has just made
    replies,    \* store: sub-collection tickets/{id}/replies, ticket id -> sequence of documents
    reqs,       \* store: collection 'roleUpgradeRequests', request id -> document
    ap,         \* AdminPanel component state, per signed-in user
    prof,       \* Profile component state, per signed-in user
    nf          \* NotificationSystem component state, per signed-in user

voteVars == <<votes, auth, td, tl, hv, rt, race>>
flowVars == <<users, dash, sd>>
deskVars == <<replies, reqs, ap, prof, nf>>
vars ==
    <<tickets, votes, auth, td, tl, hv, rt, race, users, notifications, dash,
      sd, fw, replies, reqs, ap, prof, nf>>

----------------------------------------------------------------------------
(* Store documents *)

\* A slot of the 'tickets' collection holding no document.
NoDoc ==
    [exists |-> FALSE, title |-> Null, status |-> Null, userId |-> Null,
     assignedTo |-> Null, assignedToName |-> Null,
     replyCount |-> 0, upvotes |-> 0, downvotes |-> 0]

\* ticketData with the creator as the assignee.
NewTicket_Assigned(uid, title) ==
    [exists |-> TRUE, title |-> title, status |-> "open", userId |-> uid,
     assignedTo |-> uid, assignedToName |-> Null,
     replyCount |-> 0, upvotes |-> 0, downvotes |-> 0]

\* ticketData of AskQuestionForm.onSubmit.
NewTicket(uid, title) ==
    [exists |-> TRUE, title |-> title, status |-> "open", userId |-> uid,
     assignedTo |-> Null, assignedToName |-> Null,
     replyCount |-> 0, upvotes |-> 0, downvotes |-> 0]

\* A document of the 'notifications' collection (title, message and
\* createdAt left out).
Notification(uid, type, t) ==
    [userId |-> uid, type |-> type, ticketId |-> t, read |-> FALSE]

\* addDoc(collection(db,'notifications'), n) for every n of the set ns.
AddNotifications(coll, ns) == coll (+) SetToBag(ns)

\* The query with where('role', '==', 'admin').
SupportUsers_Admins == {u \in Uids : users[u].exists /\ users[u].role = "admin"}

\* query(collection(db,'users'), where('role','in',['support-agent','admin']))
SupportUsers == {u \in Uids : users[u].exists /\ users[u].role \in {"support-agent", "admin"}}

\* getDoc(doc(db,'tickets',id,'votes',uid)): the stored type, Null when absent.
GetVote(t, uid) ==
    IF \E d \in votes[t] : d.id = uid
    THEN (CHOOSE d \in votes[t] : d.id = uid).type
    ELSE Null

\* deleteDoc(ref)
DeleteDoc(coll, id) == {d \in coll : d.id # id}

\* setDoc(ref, data): create or overwrite the document with that id.
SetDoc(coll, id, type) == {d \in coll : d.id # id} \cup {[id |-> id, type |-> type]}

\* `ticket.upvotes || 0`: every stored ticket carries numeric counters
\* (onSubmit writes 0), and n || 0 is n for every number but NaN.
Or0(x) == IF x = 0 THEN 0 ELSE x

----------------------------------------------------------------------------
(* The count computation of handleVote *)

\* TD_NewCounts with the decrements not floored at 0.
TD_NewCounts_NoFloor(up, down, userVote, type) ==
    IF userVote = type
    THEN IF type = "upvote"
         THEN [upvotes |-> up - 1, downvotes |-> down]
         ELSE [upvotes |-> up, downvotes |-> down - 1]
    ELSE IF userVote = "upvote"
         THEN [upvotes |-> up - 1, downvotes |-> down + 1]
         ELSE IF userVote = "downvote"
              THEN [upvotes |-> up + 1, downvotes |-> down - 1]
              ELSE IF type = "upvote"
                   THEN [upvotes |-> up + 1, downvotes |-> down]
                   ELSE [upvotes |-> up, downvotes |-> down + 1]

\* TicketDetail.handleVote: newUpvotes / newDownvotes from the view's ticket
\* and the view's userVote.
TD_NewCounts(up, down, userVote, type) ==
    IF userVote = type
    THEN IF type = "upvote"
         THEN [upvotes |-> Max(0, up - 1), downvotes |-> down]
         ELSE [upvotes |-> up, downvotes |-> Max(0, down - 1)]
    ELSE IF userVote = "upvote"
         THEN [upvotes |-> Max(0, up - 1), downvotes |-> down + 1]
         ELSE IF userVote = "downvote"
              THEN [upvotes |-> up + 1, downvotes |-> Max(0, down - 1)]
              ELSE IF type = "upvote"
                   THEN [upvotes |-> up + 1, downvotes |-> down]
                   ELSE [upvotes |-> up, downvotes |-> down + 1]

\* TL_NewCounts with the two branches of a first vote exchanged.
TL_NewCounts_Swapped(up, down, currentVote, type) ==
    IF currentVote = type
    THEN IF type = "upvote"
         THEN [upvotes |-> Max(0, up - 1), downvotes |-> down]
         ELSE [upvotes |-> up, downvotes |-> Max(0, down - 1)]
    ELSE IF currentVote = "upvote"
         THEN [upvotes |-> Max(0, up - 1), downvotes |-> down + 1]
         ELSE IF currentVote = "downvote"
              THEN [upvotes |-> up + 1, downvotes |-> Max(0, down - 1)]
              ELSE IF type = "upvote"
                   THEN [upvotes |-> up, downvotes |-> down + 1]
                   ELSE [upvotes |-> up + 1, downvotes |-> down]

\* TicketList.handleVote: the same computation from tickets.find(..) and
\* userVotes[ticketId].
TL_NewCounts(up, down, currentVote, type) ==
    IF currentVote = type
    THEN IF type = "upvote"
         THEN [upvotes |-> Max(0, up - 1), downvotes |-> down]
         ELSE [upvotes |-> up, downvotes |-> Max(0, down - 1)]
    ELSE IF currentVote = "upvote"
         THEN [upvotes |-> Max(0, up - 1), downvotes |-> down + 1]
         ELSE IF currentVote = "downvote"
              THEN [upvotes |-> up + 1, downvotes |-> Max(0, down - 1)]
              ELSE IF type = "upvote"
                   THEN [upvotes |-> up + 1, downvotes |-> down]
                   ELSE [upvotes |-> up, downvotes |-> down + 1]

\* TD_WriteVote that writes the document on a toggle-off as well.
TD_WriteVote_NoDelete(coll, uid, userVote, type) ==
    SetDoc(coll, uid, type)

\* The write to the vote document votes/{uid}: deleteDoc when the view's
\* vote is the requested type, setDoc otherwise.
TD_WriteVote(coll, uid, userVote, type) ==
    IF userVote = type THEN DeleteDoc(coll, uid) ELSE SetDoc(coll, uid, type)

\* TL_WriteVote that adds a document under a fresh id (addDoc) and leaves
\* the voter's earlier one.
TL_WriteVote_Add(coll, uid, currentVote, type) ==
    IF currentVote = type THEN DeleteDoc(coll, uid)
    ELSE coll \cup {[id |-> uid, type |-> type]}

TL_WriteVote(coll, uid, currentVote, type) ==
    IF currentVote = type THEN DeleteDoc(coll, uid) ELSE SetDoc(coll, uid, type)


----------------------------------------------------------------------------
(* History of handleVote invocations (observation only; no action reads it) *)

\* How a behaviour is explored: seq = handlers run one at a time (no other
\* step between a handler's start and its end); track = the history records
\* the stored and the displayed values at the start of each invocation.
Conc == [seq |-> FALSE, track |-> FALSE]
SeqM == [seq |-> TRUE, track |-> TRUE]

NoLog ==
    [st |-> "none", type |-> Null,
     sUp |-> 0, sDown |-> 0, sVote |-> Null,
     vUp |-> 0, vDown |-> 0, vVote |-> Null]

\* No workflow handler has just written a ticket.
NoWrite ==
    [kind |-> "none", actor |-> Null, role |-> Null, t |-> Null,
     name |-> Null, status |-> Null, before |-> NoDoc]

RtNone == [ph |-> "none", v |-> Null, up0 |-> 0, down0 |-> 0]
RaceNone == [ph |-> "none", a |-> Null, b |-> Null, c0 |-> 0, done |-> 0]

\* What an invocation finds at its start: the stored counts and vote (s..)
\* and the counts and vote the view holds (v..).
NoInfo ==
    [type |-> Null, sUp |-> 0, sDown |-> 0, sVote |-> Null,
     vUp |-> 0, vDown |-> 0, vVote |-> Null]

StartInfo(t, uid, type, viewTicket, viewVote) ==
    [type |-> type,
     sUp |-> tickets[t].upvotes, sDown |-> tickets[t].downvotes,
     sVote |-> GetVote(t, uid),
     vUp |-> viewTicket.upvotes, vDown |-> viewTicket.downvotes,
     vVote |-> viewVote]

\* Handlers past their guard, in any view.
TDRunning == {v \in TDViews : td[v].op.pc # "idle"}
TLRunning == {v \in TLViews : \E t \in TicketIds : tl[v].op[t].pc # "idle"}
InFlight == TDRunning \cup TLRunning

\* Under seq, a step that is not the continuation of a handler waits for
\* the handler in flight to end.
Quiet(m) == m.seq => InFlight = {}

\* The log of a view that is not the one acting: that of a running
\* invocation stays, that of a finished one is forgotten at the next step
\* of anyone.
Carry(l) == IF l.st = "run" THEN l ELSE NoLog

HvOwn(m, v, ev, b) ==
    CASE ev = "begin" ->
            IF m.track
            THEN [st |-> "run", type |-> b.type,
                  sUp |-> b.sUp, sDown |-> b.sDown, sVote |-> b.sVote,
                  vUp |-> b.vUp, vDown |-> b.vDown, vVote |-> b.vVote]
            ELSE NoLog
      [] ev = "noop" -> IF m.track THEN [NoLog EXCEPT !.st = "noop"] ELSE NoLog
      [] ev = "voteOK" -> hv[v]
      [] ev = "voteFail" -> IF m.track THEN [hv[v] EXCEPT !.st = "failVote"] ELSE NoLog
      [] ev = "countOK" -> IF m.track THEN [hv[v] EXCEPT !.st = "ok"] ELSE NoLog
      [] ev = "countFail" -> IF m.track THEN [hv[v] EXCEPT !.st = "failCount"] ELSE NoLog
      [] OTHER -> Carry(hv[v])

RtStep(m, v, ev, b) ==
    IF ~m.seq THEN rt
    ELSE CASE ev = "begin" ->
                 IF rt.ph = "mid" /\ rt.v = v /\ b.type = "upvote"
                 THEN [rt EXCEPT !.ph = "second"]
                 ELSE IF b.type = "upvote" /\ b.sVote = Null
                      THEN [ph |-> "first", v |-> v, up0 |-> b.sUp, down0 |-> b.sDown]
                      ELSE RtNone
           [] ev = "voteOK" ->
                 IF rt.v = v /\ rt.ph \in {"first", "second"} THEN rt ELSE RtNone
           [] ev = "countOK" ->
                 IF rt.v = v /\ rt.ph = "first" THEN [rt EXCEPT !.ph = "mid"]
                 ELSE IF rt.v = v /\ rt.ph = "second" THEN [rt EXCEPT !.ph = "done"]
                 ELSE RtNone
           [] OTHER -> RtNone

RaceStep(m, v, ev, b) ==
    IF m.seq THEN race
    ELSE LET first == /\ b.type = "upvote" /\ b.sVote = Null /\ b.vVote = Null
                      /\ b.vUp = b.sUp
         IN CASE ev = "begin" ->
                    IF /\ race.ph = "one" /\ race.a # v /\ auth[race.a] # auth[v]
                       /\ first /\ b.sUp = race.c0
                    THEN [race EXCEPT !.ph = "both", !.b = v]
                    ELSE IF first /\ InFlight = {}
                         THEN [RaceNone EXCEPT !.ph = "one", !.a = v, !.c0 = b.sUp]
                         ELSE RaceNone
              [] ev = "voteOK" ->
                    IF race.ph = "both" /\ v \in {race.a, race.b} THEN race ELSE RaceNone
              [] ev = "countOK" ->
                    IF race.ph = "both" /\ v \in {race.a, race.b}
                    THEN [race EXCEPT !.done = @ + 1]
                    ELSE RaceNone
              [] OTHER -> RaceNone

\* The history after a step of view v (v = Null: a step of no vote view)
\* that makes the write w.
HistW(m, v, ev, b, w) ==
    /\ hv' = [x \in VoteViews |->
                IF x = v THEN HvOwn(m, v, ev, b)
                ELSE Carry(hv[x])]
    /\ rt' = RtStep(m, v, ev, b)
    /\ race' = RaceStep(m, v, ev, b)
    /\ fw' = w

\* The history after a step of view v that is no write of a workflow handler.
Hist(m, v, ev, b) == HistW(m, v, ev, b, NoWrite)

----------------------------------------------------------------------------
(* Initial state *)

\* useUserProfile before its load has answered (profile = null).
NoProfile == [loaded |-> FALSE, name |-> Null, role |-> Null]

\* A slot of the 'roleUpgradeRequests' collection holding no document.
NoRequest ==
    [exists |-> FALSE, userId |-> Null, currentRole |-> Null,
     requestedRole |-> Null, status |-> Null]

\* AdminPanel's useState initial values (roleRequests: [], loading: true,
\* editingUser: null); ops: the handleRoleRequest calls that have not yet
\* returned.  APNone: no instance is mounted.
APFresh ==
    [mounted |-> TRUE, loading |-> TRUE,
     roleRequests |-> [r \in RequestIds |-> NoRequest], ops |-> {}]
APNone == [APFresh EXCEPT !.mounted = FALSE]

\* Profile's form defaults (role: 'end-user'), its not yet loaded
\* useUserProfile and loading: true.  ProfNone: no instance is mounted.
ProfFresh ==
    [mounted |-> TRUE, loading |-> TRUE, profile |-> NoProfile, role |-> "end-user"]
ProfNone == [ProfFresh EXCEPT !.mounted = FALSE]

\* NotificationSystem before its effect has run: useState([]), useState(0),
\* useState(true); no listener yet, no snapshot delivered, no call waiting.
NFNone ==
    [mounted |-> FALSE, listening |-> FALSE, loading |-> TRUE,
     notifications |-> {}, unreadCount |-> 0, snap |-> {}, pend |-> EmptyBag]

\* The locals of a handleVote call: where it stands, its argument, the vote
\* it found in the view (userVote / currentVote), and the counts it computed.
IdleOp ==
    [pc |-> "idle", type |-> Null, cur |-> Null,
     newUpvotes |-> 0, newDownvotes |-> 0]

\* TicketDetail's useState initial values.
TDFresh ==
    [ticket |-> NoDoc, userVote |-> Null, voting |-> FALSE, op |-> IdleOp]

\* TicketList's useState initial values (tickets: [], userVotes: {},
\* votingTickets: empty).
TLFresh ==
    [tickets |-> [t \in TicketIds |-> NoDoc],
     userVotes |-> [t \in TicketIds |-> Null],
     votingTickets |-> {},
     op |-> [t \in TicketIds |-> IdleOp]]

\* Dashboard's useState initial values and its not yet loaded profile.
DashFresh == [profile |-> NoProfile, currentView |-> "dashboard"]

\* SupportAgentDashboard's useState initial values (tickets: [], loading:
\* true) and its not yet loaded profile; SDNone: no instance is mounted.
SDFresh ==
    [mounted |-> TRUE, profile |-> NoProfile, loading |-> TRUE,
     tickets |-> [t \in TicketIds |-> NoDoc]]
SDNone == [SDFresh EXCEPT !.mounted = FALSE]

\* The profile documents at the start: an agent and an admin.
InitUsers ==
    [u \in Uids |->
        [exists |-> TRUE, name |-> StoredName[u],
         role |-> IF u = "u1" THEN "support-agent" ELSE "admin"]]

Init ==
    /\ users = InitUsers
    /\ notifications = EmptyBag
    /\ dash = [s \in Uids |-> DashFresh]
    /\ sd = [s \in Uids |-> SDNone]
    /\ fw = NoWrite
    /\ replies = [t \in TicketIds |-> << >>]
    /\ reqs = [r \in RequestIds |-> NoRequest]
    /\ ap = [s \in Uids |-> APNone]
    /\ prof = [s \in Uids |-> ProfNone]
    /\ nf = [s \in Uids |-> NFNone]
    /\ tickets = [t \in TicketIds |-> NoDoc]
    /\ votes = [t \in TicketIds |-> {}]
    /\ \E p \in Logins : auth = [v \in VoteViews |-> IF v \in TDViews THEN p[1] ELSE p[2]]
    /\ td = [v \in TDViews |-> TDFresh]
    /\ tl = [v \in TLViews |-> TLFresh]
    /\ hv = [v \in VoteViews |-> NoLog]
    /\ rt = RtNone
    /\ race = RaceNone

----------------------------------------------------------------------------
(* AskQuestionForm.onSubmit *)

\* What the e-mail transport may do with a message: the service is
\* disabled, or it is enabled and the message is sent or refused.
MailOutcomes == {"disabled", "sent", "failed"}

\* The fixed address of sendTicketCreatedNotification.
SupportAddress == "support@company.com"

\* sendEmail: true when the service is disabled; else the API route refuses
\* a message without an addressee, and sendEmail returns whether the
\* message was sent.  It never throws.
SendEmail(to, outcome) ==
    IF outcome = "disabled" THEN TRUE ELSE to # "" /\ outcome = "sent"

\* An e-mail a handler has dispatched, with what sendEmail returned.
Email(to, kind, t, outcome) ==
    [to |-> to, kind |-> kind, ticketId |-> t, sent |-> SendEmail(to, outcome)]

\* The values typed into the form: a title, a description and a category.
Forms ==
    [title : Titles \cup {"Help"},
     description : {"It fails", "It fails at login"},
     category : {"", "technical"}]

\* questionSchema without the rule on the title.
QuestionValid_NoTitle(form) ==
    /\ Len(form.description) >= 10
    /\ Len(form.category) >= 1

\* questionSchema: title of 5 characters or more, description of 10 or
\* more, category of 1 or more.
QuestionValid(form) ==
    /\ Len(form.title) >= 5
    /\ Len(form.description) >= 10
    /\ Len(form.category) >= 1

\* The forms that pass questionSchema.
ValidForms == {form \in Forms : QuestionValid(form)}

\* AQ_Reported with a refused e-mail reported as well.
AQ_Reported_Mail(ok, mail) == ~ok \/ mail = "failed"

\* onSubmit shows an error (setError) exactly when the addDoc of the ticket
\* is rejected: the inner catches keep the other failures to themselves.
AQ_Reported(ok, mail) == ~ok

\* The form passed validation and onSubmit is called with its data.
\* `if (!user) return;` ends it for a visitor who is not signed in.
\* addDoc stores the ticket under the fresh id t (ok: whether the store accepts it; if not, the outer catch
\* ends the handler with setError).  Then the e-mail is dispatched (mail:
\* what the transport does; no store write), the agents and admins are
\* queried and one notification is added for each of them; written = the
\* recipients whose addDoc the store accepts (none when the query itself
\* fails).  The handler ends with reset() and onBack().
AskQuestion_onSubmit(m, uid, t, data, ok, mail, written) ==
    /\ Quiet(m)
    /\ ~tickets[t].exists
    /\ LET ns == {Notification(u, "ticket_created", t) : u \in SupportUsers \cap written}
           stored == uid # NoUser /\ ok
           w == [kind |-> "create", actor |-> uid, t |-> t, form |-> data,
                 called |-> TRUE, stored |-> stored,
                 reported |-> uid # NoUser /\ AQ_Reported(ok, mail),
                 emails |-> IF stored
                            THEN {Email(SupportAddress, "ticket_created", t, mail)}
                            ELSE {},
                 supportUsers |-> SupportUsers, written |-> written,
                 before |-> tickets[t], nbefore |-> notifications]
       IN /\ IF stored
             THEN /\ BagCardinality(notifications) + Cardinality(ns) <= MaxNotifs
                  /\ tickets' = [tickets EXCEPT ![t] = NewTicket(uid, data.title)]
                  /\ notifications' = AddNotifications(notifications, ns)
             ELSE UNCHANGED <<tickets, notifications>>
          /\ HistW(m, Null, "other", NoInfo, w)
    /\ UNCHANGED <<votes, auth, td, tl, users, dash, sd, deskVars>>

\* "Submit" is clicked: handleSubmit(onSubmit) validates the form with
\* questionSchema and calls onSubmit only when it passes; otherwise the
\* field errors are shown and nothing else happens.
AskQuestion_handleSubmit(m, uid, t, form, ok, mail, written) ==
    \/ /\ QuestionValid(form)
       /\ AskQuestion_onSubmit(m, uid, t, form, ok, mail, written)
    \/ /\ ~QuestionValid(form)
       /\ Quiet(m)
       /\ ~tickets[t].exists
       /\ HistW(m, Null, "other", NoInfo,
                [kind |-> "create", actor |-> uid, t |-> t, form |-> form,
                 called |-> FALSE, stored |-> FALSE, reported |-> FALSE, emails |-> {},
                 supportUsers |-> SupportUsers, written |-> written,
                 before |-> tickets[t], nbefore |-> notifications])
       /\ UNCHANGED <<tickets, notifications, votes, auth, td, tl, users, dash, sd,
                      deskVars>>

----------------------------------------------------------------------------
(* TicketDetail *)

\* The ticket is selected: a TicketDetail instance is mounted, its effect
\* runs fetchTicketAndReplies and, `if (user)`, fetchUserVote, and both
\* getDoc calls answer (okT, okV: whether each succeeds).  A failed read
\* leaves the state it would have set as it is.
TD_Mount(m, v, t, okT, okV) ==
    /\ Quiet(m)
    /\ td[v].op.pc = "idle"
    /\ td' = [td EXCEPT ![v] =
                [TDFresh EXCEPT
                   !.ticket = IF okT /\ tickets[t].exists THEN tickets[t] ELSE NoDoc,
                   !.userVote = IF auth[v] # NoUser /\ okV
                                THEN GetVote(t, auth[v]) ELSE Null]]
    /\ Hist(m, v, "other", NoInfo)
    /\ UNCHANGED <<tickets, votes, auth, tl, notifications, flowVars, deskVars>>

\* The flag left as handleVote has set it.
TD_Finally_Set == TRUE

\* `finally { setVoting(false); }`: the value the voting flag is given at
\* the end of handleVote.
TD_Finally == FALSE

\* TD_VoteGuard without the check of the signed-in user.
TD_VoteGuard_NoUser(ticket, user, voting) ==
    ticket.exists /\ ~voting

\* `if (!ticket || !user || voting) return;` read the other way round.
TD_VoteGuard(ticket, user, voting) ==
    ticket.exists /\ user # NoUser /\ ~voting

\* handleVote up to its first await (deleteDoc / setDoc issued).
TD_handleVote(m, v, t, type) ==
    /\ Quiet(m)
    /\ IF TD_VoteGuard(td[v].ticket, auth[v], td[v].voting)
       THEN LET n == TD_NewCounts(Or0(td[v].ticket.upvotes), Or0(td[v].ticket.downvotes),
                                  td[v].userVote, type)
            IN /\ n.upvotes + n.downvotes <= MaxCount
               /\ td' = [td EXCEPT ![v].voting = TRUE,
                                   ![v].op = [pc |-> "voteWrite", type |-> type,
                                              cur |-> td[v].userVote,
                                              newUpvotes |-> n.upvotes,
                                              newDownvotes |-> n.downvotes]]
               /\ Hist(m, v, "begin",
                       StartInfo(t, auth[v], type, td[v].ticket, td[v].userVote))
       ELSE /\ td' = td
            /\ Hist(m, v, "noop", [NoInfo EXCEPT !.type = type])
    /\ UNCHANGED <<tickets, votes, auth, tl, notifications, flowVars, deskVars>>

\* The vote-document write answers; on success setUserVote and updateDoc is
\* issued, on failure catch and finally.
TD_voteWritten(m, v, t, ok) ==
    /\ td[v].op.pc = "voteWrite"
    /\ IF ok
       THEN /\ votes' = [votes EXCEPT ![t] =
                           TD_WriteVote(@, auth[v], td[v].op.cur, td[v].op.type)]
            /\ td' = [td EXCEPT ![v].userVote =
                                   IF td[v].op.cur = td[v].op.type
                                   THEN Null ELSE td[v].op.type,
                                ![v].op.pc = "countWrite"]
            /\ Hist(m, v, "voteOK", NoInfo)
       ELSE /\ votes' = votes
            /\ td' = [td EXCEPT ![v].voting = TD_Finally, ![v].op = IdleOp]
            /\ Hist(m, v, "voteFail", NoInfo)
    /\ UNCHANGED <<tickets, auth, tl, notifications, flowVars, deskVars>>

\* updateDoc(ticketRef, {upvotes, downvotes}) answers; on success setTicket,
\* then finally.
TD_countWritten(m, v, t, ok) ==
    /\ td[v].op.pc = "countWrite"
    /\ IF ok /\ tickets[t].exists
       THEN /\ tickets' = [tickets EXCEPT ![t].upvotes = td[v].op.newUpvotes,
                                          ![t].downvotes = td[v].op.newDownvotes]
            /\ td' = [td EXCEPT ![v].ticket =
                                   IF @.exists
                                   THEN [@ EXCEPT !.upvotes = td[v].op.newUpvotes,
                                                  !.downvotes = td[v].op.newDownvotes]
                                   ELSE @,
                                ![v].voting = TD_Finally, ![v].op = IdleOp]
            /\ Hist(m, v, "countOK", NoInfo)
       ELSE /\ tickets' = tickets
            /\ td' = [td EXCEPT ![v].voting = TD_Finally, ![v].op = IdleOp]
            /\ Hist(m, v, "countFail", NoInfo)
    /\ UNCHANGED <<votes, auth, tl, notifications, flowVars, deskVars>>

----------------------------------------------------------------------------
(* TicketList *)

\* The effect on the filters, or handlePageChange: fetchTickets(true) resets
\* the list, getDocs(q) answers and setTickets stores the documents, then
\* `if (user)` fetchUserVotes reads the voter's vote on each of them (a read
\* in `failed` throws and yields null) and setUserVotes merges the result.
\* A failed getDocs leaves the list empty.
TL_fetchTickets(m, v, ok, failed) ==
    /\ Quiet(m)
    /\ LET got == IF ok THEN {t \in TicketIds : tickets[t].exists} ELSE {}
       IN /\ failed \subseteq got
          /\ auth[v] = NoUser => failed = {}
          /\ tl' = [tl EXCEPT
                      ![v].tickets = [t \in TicketIds |->
                                        IF t \in got THEN tickets[t] ELSE NoDoc],
                      ![v].userVotes = [t \in TicketIds |->
                                          IF t \in got /\ auth[v] # NoUser
                                          THEN IF t \in failed THEN Null
                                               ELSE GetVote(t, auth[v])
                                          ELSE @[t]]]
    /\ Hist(m, v, "other", NoInfo)
    /\ UNCHANGED <<tickets, votes, auth, td, notifications, flowVars, deskVars>>

\* `if (!user || votingTickets.has(ticketId)) return;` and, inside the try,
\* `if (!ticket) return;`, read the other way round.
TL_VoteGuard(ticket, user, marked) ==
    user # NoUser /\ ~marked /\ ticket.exists

\* handleVote up to its first await.  A call that returns early leaves the
\* marker as it was (its finally removes what it added).
TL_handleVote(m, v, t, type) ==
    /\ Quiet(m)
    /\ IF TL_VoteGuard(tl[v].tickets[t], auth[v], t \in tl[v].votingTickets)
       THEN LET n == TL_NewCounts(Or0(tl[v].tickets[t].upvotes),
                                  Or0(tl[v].tickets[t].downvotes),
                                  tl[v].userVotes[t], type)
            IN /\ n.upvotes + n.downvotes <= MaxCount
               /\ tl' = [tl EXCEPT ![v].votingTickets = @ \cup {t},
                                   ![v].op[t] = [pc |-> "voteWrite", type |-> type,
                                                 cur |-> tl[v].userVotes[t],
                                                 newUpvotes |-> n.upvotes,
                                                 newDownvotes |-> n.downvotes]]
               /\ Hist(m, v, "begin",
                       StartInfo(t, auth[v], type, tl[v].tickets[t], tl[v].userVotes[t]))
       ELSE /\ tl' = tl
            /\ Hist(m, v, "noop", [NoInfo EXCEPT !.type = type])
    /\ UNCHANGED <<tickets, votes, auth, td, notifications, flowVars, deskVars>>

TL_voteWritten(m, v, t, ok) ==
    /\ tl[v].op[t].pc = "voteWrite"
    /\ IF ok
       THEN /\ votes' = [votes EXCEPT ![t] =
                           TL_WriteVote(@, auth[v], tl[v].op[t].cur, tl[v].op[t].type)]
            /\ tl' = [tl EXCEPT ![v].userVotes[t] =
                                   IF tl[v].op[t].cur = tl[v].op[t].type
                                   THEN Null ELSE tl[v].op[t].type,
                                ![v].op[t].pc = "countWrite"]
            /\ Hist(m, v, "voteOK", NoInfo)
       ELSE /\ votes' = votes
            /\ tl' = [tl EXCEPT ![v].votingTickets = @ \ {t}, ![v].op[t] = IdleOp]
            /\ Hist(m, v, "voteFail", NoInfo)
    /\ UNCHANGED <<tickets, auth, td, notifications, flowVars, deskVars>>

TL_countWritten(m, v, t, ok) ==
    /\ tl[v].op[t].pc = "countWrite"
    /\ IF ok /\ tickets[t].exists
       THEN /\ tickets' = [tickets EXCEPT ![t].upvotes = tl[v].op[t].newUpvotes,
                                          ![t].downvotes = tl[v].op[t].newDownvotes]
            /\ tl' = [tl EXCEPT ![v].tickets[t] =
                                   IF @.exists
                                   THEN [@ EXCEPT !.upvotes = tl[v].op[t].newUpvotes,
                                                  !.downvotes = tl[v].op[t].newDownvotes]
                                   ELSE @,
                                ![v].votingTickets = @ \ {t},
                                ![v].op[t] = IdleOp]
            /\ Hist(m, v, "countOK", NoInfo)
       ELSE /\ tickets' = tickets
            /\ tl' = [tl EXCEPT ![v].votingTickets = @ \ {t}, ![v].op[t] = IdleOp]
            /\ Hist(m, v, "countFail", NoInfo)
    /\ UNCHANGED <<votes, auth, td, notifications, flowVars, deskVars>>

----------------------------------------------------------------------------
(* useUserProfile, Dashboard and Header *)

\* LoadProfile with the admin role as the default of the catch branch.
LoadProfile_CatchAdmin(uid, ok) ==
    IF ok
    THEN [loaded |-> TRUE,
          name |-> IF users[uid].exists /\ users[uid].name # Null
                   THEN users[uid].name ELSE DisplayName[uid],
          role |-> IF users[uid].exists /\ users[uid].role # Null
                   THEN users[uid].role ELSE "end-user"]
    ELSE [loaded |-> TRUE, name |-> DisplayName[uid], role |-> "admin"]

\* loadProfile for a signed-in user: the role and name of users/{uid}, or
\* the end-user default when the document is missing or the read fails
\* (ok = FALSE).
LoadProfile(uid, ok) ==
    IF ok /\ users[uid].exists
    THEN [loaded |-> TRUE,
          name |-> IF users[uid].name = Null THEN DisplayName[uid] ELSE users[uid].name,
          role |-> IF users[uid].role = Null THEN "end-user" ELSE users[uid].role]
    ELSE [loaded |-> TRUE, name |-> DisplayName[uid], role |-> "end-user"]

\* `profile?.role || 'end-user'`
UserRole(profile) == IF profile.loaded THEN profile.role ELSE "end-user"

\* Header: the roles that see the Support button and the Admin button.
CanAccessSupport(userRole) == userRole = "support-agent" \/ userRole = "admin"
CanAccessAdmin(userRole) == userRole = "admin"

\* renderView: the dashboard state d shows a SupportAgentDashboard / an
\* AdminPanel.
ShowsSupport(d) ==
    \/ d.currentView = "support"
    \/ d.currentView = "dashboard" /\ UserRole(d.profile) = "support-agent"

ShowsAdmin(d) ==
    \/ d.currentView = "admin"
    \/ d.currentView = "dashboard" /\ UserRole(d.profile) = "admin"

\* The SupportAgentDashboard instance of session s after a render with
\* dashboard state d: kept while renderView still returns one, mounted
\* afresh when it starts to, unmounted when it no longer does.
Rendered(s, d) ==
    IF ShowsSupport(d)
    THEN IF sd[s].mounted THEN sd[s] ELSE SDFresh
    ELSE SDNone

\* The AdminPanel instance of session s after a render with dashboard state
\* d.  A handleRoleRequest call that has not returned goes on after its
\* panel is unmounted.
RenderedAdmin(s, d) ==
    IF ShowsAdmin(d)
    THEN IF ap[s].mounted THEN ap[s] ELSE [APFresh EXCEPT !.ops = ap[s].ops]
    ELSE [APNone EXCEPT !.ops = ap[s].ops]

\* The Profile instance of session s after a render with dashboard state d.
RenderedProfile(s, d) ==
    IF d.currentView = "profile"
    THEN IF prof[s].mounted THEN prof[s] ELSE ProfFresh
    ELSE ProfNone

\* Session s becomes dashboard state d.
Render(s, d) ==
    /\ dash' = [dash EXCEPT ![s] = d]
    /\ sd' = [sd EXCEPT ![s] = Rendered(s, d)]
    /\ ap' = [ap EXCEPT ![s] = RenderedAdmin(s, d)]
    /\ prof' = [prof EXCEPT ![s] = RenderedProfile(s, d)]

\* The page is loaded again: a new Dashboard instance.
Dash_Mount(s) ==
    /\ dash[s] # DashFresh
    /\ dash' = [dash EXCEPT ![s] = DashFresh]
    /\ sd' = [sd EXCEPT ![s] = SDNone]
    /\ ap' = [ap EXCEPT ![s] = APNone]
    /\ prof' = [prof EXCEPT ![s] = ProfNone]
    /\ fw' = NoWrite
    /\ UNCHANGED <<tickets, notifications, users, voteVars, replies, reqs, nf>>

\* The getDoc of Dashboard's useUserProfile answers.
Dash_loadProfile(s, ok) ==
    /\ ~dash[s].profile.loaded
    /\ Render(s, [dash[s] EXCEPT !.profile = LoadProfile(s, ok)])
    /\ fw' = NoWrite
    /\ UNCHANGED <<tickets, notifications, users, voteVars, replies, reqs, nf>>

\* A navigation button of Header is clicked: Support and Admin are there
\* for the roles that may see them and on the dashboard view only, Profile
\* always.
Header_onViewChange(s, view) ==
    /\ view \in {"support", "admin", "profile"}
    /\ view = "support" =>
          CanAccessSupport(UserRole(dash[s].profile)) /\ dash[s].currentView = "dashboard"
    /\ view = "admin" =>
          CanAccessAdmin(UserRole(dash[s].profile)) /\ dash[s].currentView = "dashboard"
    /\ dash[s].currentView # view
    /\ Render(s, [dash[s] EXCEPT !.currentView = view])
    /\ fw' = NoWrite
    /\ UNCHANGED <<tickets, notifications, users, voteVars, replies, reqs, nf>>

\* The back button of Profile or AdminPanel: onBack.
Dash_onBack(s) ==
    /\ dash[s].currentView \in {"profile", "admin"}
    /\ Render(s, [dash[s] EXCEPT !.currentView = "dashboard"])
    /\ fw' = NoWrite
    /\ UNCHANGED <<tickets, notifications, users, voteVars, replies, reqs, nf>>

----------------------------------------------------------------------------
(* AdminPanel *)

\* No handleRoleRequest call is waiting for the store.
RoleQuiet == \A s \in Uids : ap[s].ops = {}

\* In a run where the calls do not overlap, a handler starts only then.
RoleQuietIf(m) == m.seq => RoleQuiet

\* The panel of session s shows its tabs: it is mounted and not loading.
AP_Shown(s) == ap[s].mounted /\ ~ap[s].loading

\* where('status', '==', 'pending') of fetchData, as the list it gives.
PendingRequests ==
    [r \in RequestIds |->
        IF reqs[r].exists /\ reqs[r].status = "pending" THEN reqs[r] ELSE NoRequest]

\* fetchData (run by the effect on mount and by the handlers after their
\* write): getDocs answers and setRoleRequests stores the pending requests
\* (the lists of categories and users are not kept); a failed read leaves
\* the list as it is.  Either way loading ends.
AP_fetchData(s, ok) ==
    /\ ap[s].mounted
    /\ ap[s].loading
    /\ ap' = [ap EXCEPT ![s].roleRequests = IF ok THEN PendingRequests ELSE @,
                         ![s].loading = FALSE]
    /\ fw' = NoWrite
    /\ UNCHANGED <<tickets, notifications, flowVars, voteVars, replies, reqs, prof, nf>>

\* The values the role field may be saved with: the one handleEditUser
\* copied from the listed user, or an option of the select.
EditingRoles(role) == {role, "user", "support-agent", "admin"}

\* handleSaveUser on the listed user `target`, name and e-mail left as
\* handleEditUser filled them in: updateDoc(users/{target}, {name, email, role}).
Admin_handleSaveUser(m, s, target, role, ok) ==
    /\ RoleQuietIf(m)
    /\ AP_Shown(s)
    /\ users[target].exists
    /\ role \in EditingRoles(users[target].role)
    /\ IF ok
       THEN /\ users' = [users EXCEPT ![target].role = role]
            /\ ap' = [ap EXCEPT ![s].loading = TRUE]
            /\ fw' = [kind |-> "saveUser", actor |-> s, role |-> users[s].role,
                      target |-> target, old |-> users[target].role, new |-> role]
       ELSE /\ fw' = NoWrite
            /\ UNCHANGED <<users, ap>>
    /\ UNCHANGED <<tickets, notifications, dash, sd, voteVars, replies, reqs, prof, nf>>

----------------------------------------------------------------------------
(* SupportAgentDashboard *)

\* The getDoc of SupportAgentDashboard's own useUserProfile answers.
SD_loadProfile(s, ok) ==
    /\ sd[s].mounted
    /\ ~sd[s].profile.loaded
    /\ sd' = [sd EXCEPT ![s].profile = LoadProfile(s, ok)]
    /\ fw' = NoWrite
    /\ UNCHANGED <<tickets, notifications, users, dash, voteVars, deskVars>>

\* fetchTickets (run by the effect on mount and on a change of the sort
\* order, and by the handlers after their write), no filter set: getDocs
\* answers and setTickets stores the documents; a failed read leaves the
\* list as it is.  Either way loading ends.
SD_fetchTickets(s, ok) ==
    /\ sd[s].mounted
    /\ sd' = [sd EXCEPT ![s].tickets = IF ok THEN tickets ELSE @,
                         ![s].loading = FALSE]
    /\ fw' = NoWrite
    /\ UNCHANGED <<tickets, notifications, users, dash, voteVars, deskVars>>

\* SD_AssignUpdate that leaves a ticket with an assignee as it is.
SD_AssignUpdate_IfFree(d, uid, name) ==
    IF d.assignedTo = Null
    THEN [d EXCEPT !.assignedTo = uid, !.assignedToName = name, !.status = "in-progress"]
    ELSE d

\* SD_AssignUpdate as setDoc without merge: the document is replaced.
SD_AssignUpdate_Overwrite(d, uid, name) ==
    [NoDoc EXCEPT !.exists = TRUE, !.assignedTo = uid, !.assignedToName = name,
                  !.status = "in-progress"]

\* updateDoc(ref, {assignedTo, assignedToName, status: 'in-progress'}): the
\* named fields are written, the others stay.
SD_AssignUpdate(d, uid, name) ==
    [d EXCEPT !.assignedTo = uid, !.assignedToName = name, !.status = "in-progress"]

\* SD_StatusUpdate as setDoc without merge: the document is replaced.
SD_StatusUpdate_Overwrite(d, newStatus) ==
    [NoDoc EXCEPT !.exists = TRUE, !.status = newStatus]

\* updateDoc(ref, {status: newStatus})
SD_StatusUpdate(d, newStatus) == [d EXCEPT !.status = newStatus]

\* `if (!user || !profile) return;` read the other way round.
SD_AssignGuard(user, profile) == user # NoUser /\ profile.loaded

\* The rows of the list carry their buttons once loading has ended.
SD_Listed(s, t) == sd[s].mounted /\ ~sd[s].loading /\ sd[s].tickets[t].exists

\* SD_Recipient with the signed-in agent as the recipient.
SD_Recipient_Actor(s, t) == s

\* `userId: ticket.userId` of the listed ticket: the recipient of the
\* notification.
SD_Recipient(s, t) == sd[s].tickets[t].userId

\* What a handler does after its ticket write: `tickets.find` gives the
\* listed ticket, a notification for its creator is added (okN: whether the
\* store accepts it; the failure is swallowed), the e-mail is dispatched (no
\* store write) and fetchTickets starts (setLoading(true)).
SD_AfterWrite(s, t, type, okN) ==
    /\ notifications' =
          IF okN
          THEN AddNotifications(notifications,
                                {Notification(SD_Recipient(s, t), type, t)})
          ELSE notifications
    /\ sd' = [sd EXCEPT ![s].loading = TRUE]

\* The e-mails a handler dispatches after its ticket write: the status
\* mail follows the addDoc of the notification in the same try block, so
\* it is dispatched only when that addDoc was accepted; its addressee is
\* `userEmail: ''`.
SD_Emails(t, okN, mail) ==
    IF okN THEN {Email("", "status_update", t, mail)} ELSE {}

\* "Assign to Me" on a row whose listed ticket has no assignee:
\* handleAssignTicket.  ok: whether the store accepts the ticket write; if
\* not, the outer catch ends the handler.
SD_handleAssignTicket(s, t, ok, okN, mail) ==
    /\ SD_Listed(s, t)
    /\ sd[s].tickets[t].assignedTo = Null
    /\ IF SD_AssignGuard(s, sd[s].profile)
       THEN IF ok /\ tickets[t].exists
            THEN /\ BagCardinality(notifications) < MaxNotifs
                 /\ tickets' = [tickets EXCEPT ![t] =
                                    SD_AssignUpdate(@, s, sd[s].profile.name)]
                 /\ SD_AfterWrite(s, t, "ticket_updated", okN)
                 /\ fw' = [kind |-> "assign", actor |-> s, role |-> users[s].role,
                           t |-> t, name |-> sd[s].profile.name,
                           status |-> "in-progress", before |-> tickets[t],
                           okN |-> okN, nbefore |-> notifications,
                           emails |-> SD_Emails(t, okN, mail), reported |-> FALSE]
            ELSE /\ fw' = NoWrite
                 /\ UNCHANGED <<tickets, notifications, sd>>
       ELSE /\ fw' = NoWrite
            /\ UNCHANGED <<tickets, notifications, sd>>
    /\ UNCHANGED <<users, dash, voteVars, deskVars>>

\* The status select on a row whose listed ticket is assigned to the
\* signed-in user: handleUpdateStatus.
SD_handleUpdateStatus(s, t, newStatus, ok, okN, mail) ==
    /\ SD_Listed(s, t)
    /\ sd[s].tickets[t].assignedTo = s
    /\ newStatus # sd[s].tickets[t].status
    /\ IF ok /\ tickets[t].exists
       THEN /\ BagCardinality(notifications) < MaxNotifs
            /\ tickets' = [tickets EXCEPT ![t] = SD_StatusUpdate(@, newStatus)]
            /\ SD_AfterWrite(s, t, "status_changed", okN)
            /\ fw' = [kind |-> "status", actor |-> s, role |-> users[s].role,
                      t |-> t, name |-> Null,
                      status |-> newStatus, before |-> tickets[t],
                      okN |-> okN, nbefore |-> notifications,
                      emails |-> SD_Emails(t, okN, mail), reported |-> FALSE]
       ELSE /\ fw' = NoWrite
            /\ UNCHANGED <<tickets, notifications, sd>>
    /\ UNCHANGED <<users, dash, voteVars, deskVars>>

----------------------------------------------------------------------------
(* TicketDetail.handleSubmitReply *)

\* The component that renders the TicketDetail: TicketList passes the
\* Dashboard's userRole on, SupportAgentDashboard passes "support-agent".
Hosts == {"list", "support"}

\* Dashboard shows the TicketList: the default view of the other roles.
ShowsList(d) ==
    /\ d.currentView = "dashboard"
    /\ UserRole(d.profile) \notin {"support-agent", "admin"}

\* The userRole prop of the TicketDetail of session s under host h.
TD_UserRole(s, h) ==
    IF h = "support" THEN "support-agent" ELSE UserRole(dash[s].profile)

\* canReply: the reply form is rendered for these roles only.
TD_CanReply(ticket, userRole) ==
    ticket.exists /\ (userRole = "support-agent" \/ userRole = "admin")

\* The reply document without its author.
Reply_NoAuthor(uid, name) == [userId |-> Null, userName |-> name]

\* A document of tickets/{id}/replies (content and createdAt left out).
Reply(uid, name) == [userId |-> uid, userName |-> name]

\* Session s has selected ticket t under host h, its TicketDetail has
\* fetched the ticket, a text is typed into the reply form and the form is
\* sent: handleSubmitReply.  `profile?.name || 'User'` is the name of the
\* TicketDetail's own profile when it has loaded.  ok: whether the store
\* accepts the addDoc; if not, the catch ends the handler.  The e-mail
\* that follows makes no store write and the ticket is not written.
TD_handleSubmitReply(s, t, h, loaded, ok) ==
    /\ h = "support" => SD_Listed(s, t)
    /\ h = "list" => ShowsList(dash[s])
    /\ TD_CanReply(tickets[t], TD_UserRole(s, h))
    /\ Len(replies[t]) < MaxReplies
    /\ IF ok
       THEN /\ replies' = [replies EXCEPT ![t] =
                   Append(@, Reply(s, IF loaded THEN LoadProfile(s, TRUE).name
                                                ELSE "User"))]
            /\ fw' = [kind |-> "reply", actor |-> s, role |-> users[s].role, t |-> t]
       ELSE /\ fw' = NoWrite
            /\ UNCHANGED replies
    /\ UNCHANGED <<tickets, notifications, flowVars, voteVars, reqs, ap, prof, nf>>

----------------------------------------------------------------------------
(* AdminPanel.handleRoleRequest *)

Actions == {"approve", "reject"}

\* updateDoc(userRef, {role: request.requestedRole}) without the write.
AP_RoleUpdate_Keep(u, requestedRole) == u

\* updateDoc(userRef, {role: request.requestedRole})
AP_RoleUpdate(u, requestedRole) == [u EXCEPT !.role = requestedRole]

\* updateDoc(requestRef, {status})
AP_StatusUpdate(req, status) == [req EXCEPT !.status = status]

\* AP_FirstWrite with the status written at once for both actions.
AP_FirstWrite_Status(action) == "status"

\* AP_FirstWrite with the branch of 'approve' taken for both actions.
AP_FirstWrite_Role(action) == "role"

\* The first store write of handleRoleRequest: the role of the user when
\* approving, the status of the request when rejecting.
AP_FirstWrite(action) == IF action = "approve" THEN "role" ELSE "status"

\* The status a request is given by an action.
AP_Status(action) == IF action = "approve" THEN "approved" ELSE "rejected"

\* The call of handleRoleRequest(r, action) of session s that has not yet
\* returned, if there is one.
AP_Op(s, r, action) == {op \in ap[s].ops : op.r = r /\ op.action = action}

\* Approve or Reject is clicked on the listed request r: handleRoleRequest
\* up to its first await.  `roleRequests.find` gives the listed request,
\* which the call keeps; status0 and profile0 note what the store holds
\* for the request and for its user at this moment.
AP_handleRoleRequest(m, s, r, action) ==
    /\ RoleQuietIf(m)
    /\ AP_Shown(s)
    /\ ap[s].roleRequests[r].exists
    /\ LET request == ap[s].roleRequests[r]
           op == [r |-> r, action |-> action, pc |-> AP_FirstWrite(action),
                  userId |-> request.userId,
                  requestedRole |-> request.requestedRole,
                  status0 |-> reqs[r].status,
                  profile0 |-> users[request.userId]]
       IN /\ AP_Op(s, r, action) = {}
          /\ ap' = [ap EXCEPT ![s].ops = @ \cup {op}]
    /\ fw' = NoWrite
    /\ UNCHANGED <<tickets, notifications, flowVars, voteVars, replies, reqs, prof, nf>>

\* The updateDoc of the user's role answers.  If it is rejected, the catch
\* ends the call.
AP_roleWritten(s, r, action, ok) ==
    \E op \in AP_Op(s, r, action) :
    /\ op.pc = "role"
    /\ IF ok /\ users[op.userId].exists
       THEN /\ users' = [users EXCEPT ![op.userId] = AP_RoleUpdate(@, op.requestedRole)]
            /\ ap' = [ap EXCEPT ![s].ops =
                         (@ \ {op}) \cup {[op EXCEPT !.pc = "status"]}]
            /\ fw' = [kind |-> "approveRole", actor |-> s, role |-> users[s].role,
                      target |-> op.userId, old |-> users[op.userId].role,
                      new |-> op.requestedRole]
       ELSE /\ ap' = [ap EXCEPT ![s].ops = @ \ {op}]
            /\ fw' = NoWrite
            /\ UNCHANGED users
    /\ UNCHANGED <<tickets, notifications, dash, sd, voteVars, replies, reqs, prof, nf>>

\* The updateDoc of the request's status answers; the call ends with
\* fetchData() (setLoading(true)) or, if the write is rejected, in the
\* catch.
AP_statusWritten(s, r, action, ok) ==
    \E op \in AP_Op(s, r, action) :
    /\ op.pc = "status"
    /\ IF ok /\ reqs[op.r].exists
       THEN /\ reqs' = [reqs EXCEPT ![op.r] = AP_StatusUpdate(@, AP_Status(op.action))]
            /\ ap' = [ap EXCEPT ![s].ops = @ \ {op},
                                 ![s].loading = IF ap[s].mounted THEN TRUE ELSE @]
            /\ fw' = [kind |-> op.action, actor |-> s, role |-> users[s].role,
                      r |-> op.r, target |-> op.userId,
                      requestedRole |-> op.requestedRole,
                      status0 |-> op.status0, profile0 |-> op.profile0,
                      before |-> reqs[op.r]]
       ELSE /\ ap' = [ap EXCEPT ![s].ops = @ \ {op}]
            /\ fw' = NoWrite
            /\ UNCHANGED reqs
    /\ UNCHANGED <<tickets, notifications, flowVars, voteVars, replies, prof, nf>>

----------------------------------------------------------------------------
(* Profile *)

\* profileSchema: z.enum(['end-user', 'support-agent', 'admin'])
ProfileRoles == {"end-user", "support-agent", "admin"}

\* The getDoc of Profile's useUserProfile answers.
Prof_useUserProfile(s, ok) ==
    /\ prof[s].mounted
    /\ ~prof[s].profile.loaded
    /\ prof' = [prof EXCEPT ![s].profile = LoadProfile(s, ok)]
    /\ fw' = NoWrite
    /\ UNCHANGED <<tickets, notifications, flowVars, voteVars, replies, reqs, ap, nf>>

\* loadProfile of Profile: the getDoc answers and, when the document is
\* there, reset() puts `userData.role || 'end-user'` into the form; a
\* failed read leaves the form's default.  Either way loading ends.
Prof_loadProfile(s, ok) ==
    /\ prof[s].mounted
    /\ prof[s].loading
    /\ prof' = [prof EXCEPT
                  ![s].role = IF ok /\ users[s].exists
                              THEN (IF users[s].role = Null THEN "end-user"
                                    ELSE users[s].role)
                              ELSE @,
                  ![s].loading = FALSE]
    /\ fw' = NoWrite
    /\ UNCHANGED <<tickets, notifications, flowVars, voteVars, replies, reqs, ap, nf>>

\* canChangeRole: `currentUserRole === 'admin'`, on the profile the
\* component's useUserProfile has loaded.
Prof_CanChangeRole(profile) == UserRole(profile) = "admin"

\* An option of the role select is chosen; the select is disabled unless
\* canChangeRole.
Prof_selectRole(s, role) ==
    /\ prof[s].mounted
    /\ ~prof[s].loading
    /\ Prof_CanChangeRole(prof[s].profile)
    /\ role \in ProfileRoles
    /\ role # prof[s].role
    /\ prof' = [prof EXCEPT ![s].role = role]
    /\ fw' = NoWrite
    /\ UNCHANGED <<tickets, notifications, flowVars, voteVars, replies, reqs, ap, nf>>

\* Update is clicked and the form passes profileSchema: onSubmit.
\* setDoc(userRef, {name, email, role, ...}, {merge: true}) writes the
\* form's role and name (the name as loadProfile put it into the form)
\* and creates the document when there is none.
Prof_onSubmit(m, s, ok) ==
    /\ RoleQuietIf(m)
    /\ prof[s].mounted
    /\ ~prof[s].loading
    /\ prof[s].role \in ProfileRoles
    /\ IF ok
       THEN /\ users' = [users EXCEPT ![s] =
                   [exists |-> TRUE,
                    name |-> IF users[s].exists /\ users[s].name # Null
                             THEN users[s].name ELSE DisplayName[s],
                    role |-> prof[s].role]]
            /\ fw' = [kind |-> "saveProfile", actor |-> s, role |-> users[s].role,
                      target |-> s, old |-> users[s].role, new |-> prof[s].role]
       ELSE /\ fw' = NoWrite
            /\ UNCHANGED users
    /\ UNCHANGED <<tickets, notifications, dash, sd, voteVars, deskVars>>

\* "Request Upgrade to Support Agent" is clicked with a reason typed in:
\* handleRoleUpgradeRequest.  The section is rendered while the form's role
\* is 'end-user'; requestedRole is 'support-agent' (its other radio button
\* is disabled).  addDoc stores the request under the fresh id r (ok:
\* whether the store accepts it), then sendNotificationToAdmin adds a
\* notification for the userId 'admin' (okN; its failure is swallowed).
Prof_handleRoleUpgradeRequest(m, s, r, ok, okN) ==
    /\ RoleQuietIf(m)
    /\ prof[s].mounted
    /\ ~prof[s].loading
    /\ prof[s].role = "end-user"
    /\ ~reqs[r].exists
    /\ IF ok
       THEN /\ BagCardinality(notifications) < MaxNotifs
            /\ reqs' = [reqs EXCEPT ![r] =
                   [exists |-> TRUE, userId |-> s,
                    currentRole |-> UserRole(prof[s].profile),
                    requestedRole |-> "support-agent", status |-> "pending"]]
            /\ notifications' =
                  IF okN
                  THEN AddNotifications(notifications,
                          {Notification("admin", "role_upgrade_request", Null)})
                  ELSE notifications
       ELSE UNCHANGED <<reqs, notifications>>
    /\ fw' = NoWrite
    /\ UNCHANGED <<tickets, flowVars, voteVars, replies, ap, prof, nf>>

----------------------------------------------------------------------------
(* Specifications *)

\* The steps of the vote workflow; oks = the outcomes a store call may have
\* (TRUE = it succeeds, FALSE = it is rejected).
VoteNext(m, oks) ==
    \/ \E u \in Uids, t \in TicketIds, data \in ValidForms, ok \in oks :
          AskQuestion_onSubmit(m, u, t, data, ok, "sent", Uids)
    \/ \E v \in TDViews, t \in TicketIds, okT \in oks, okV \in oks :
          TD_Mount(m, v, t, okT, okV)
    \/ \E v \in TDViews, t \in TicketIds, type \in Kinds : TD_handleVote(m, v, t, type)
    \/ \E v \in TDViews, t \in TicketIds, ok \in oks : TD_voteWritten(m, v, t, ok)
    \/ \E v \in TDViews, t \in TicketIds, ok \in oks : TD_countWritten(m, v, t, ok)
    \/ \E v \in TLViews, ok \in oks,
          failed \in (IF FALSE \in oks THEN SUBSET TicketIds ELSE {{}}) :
          TL_fetchTickets(m, v, ok, failed)
    \/ \E v \in TLViews, t \in TicketIds, type \in Kinds : TL_handleVote(m, v, t, type)
    \/ \E v \in TLViews, t \in TicketIds, ok \in oks : TL_voteWritten(m, v, t, ok)
    \/ \E v \in TLViews, t \in TicketIds, ok \in oks : TL_countWritten(m, v, t, ok)

\* Handlers of different views interleave at their awaits; store calls may fail.
Next == VoteNext(Conc, BOOLEAN)
Spec == Init /\ [][Next]_vars

\* Handlers run one at a time and every store call succeeds.
NextSeq == VoteNext(SeqM, {TRUE})
SpecSeq == Init /\ [][NextSeq]_vars

\* Handlers run one at a time; store calls may fail.
NextSeqFail == VoteNext(SeqM, BOOLEAN)
SpecSeqFail == Init /\ [][NextSeqFail]_vars

\* The steps of the assignment / status workflow: tickets are created,
\* sessions load, navigate and reload, agents assign and update, admins
\* edit the role of a user of EditedUsers.  roks = the outcomes of a read,
\* oks = those of a primary write, noks = those of a notification write.
FlowNext(roks, oks, noks) ==
    \/ \E u \in Uids, t \in TicketIds, data \in ValidForms, ok \in oks :
          AskQuestion_onSubmit(Conc, u, t, data, ok, "sent", Uids)
    \/ \E s \in Uids : Dash_Mount(s)
    \/ \E s \in Uids, ok \in roks : Dash_loadProfile(s, ok)
    \/ \E s \in Uids, view \in Views : Header_onViewChange(s, view)
    \/ \E s \in Uids : Dash_onBack(s)
    \/ \E s \in Uids, target \in EditedUsers, role \in Roles, ok \in oks :
          Admin_handleSaveUser(Conc, s, target, role, ok)
    \/ \E s \in Uids, ok \in roks : AP_fetchData(s, ok)
    \/ \E s \in Uids, ok \in roks : SD_loadProfile(s, ok)
    \/ \E s \in Uids, ok \in roks : SD_fetchTickets(s, ok)
    \/ \E s \in Uids, t \in TicketIds, ok \in oks, okN \in noks :
          SD_handleAssignTicket(s, t, ok, okN, "sent")
    \/ \E s \in Uids, t \in TicketIds, st \in Statuses, ok \in oks, okN \in noks :
          SD_handleUpdateStatus(s, t, st, ok, okN, "sent")

\* Votes in a TicketDetail view next to the workflow of the agent's
\* session: the steps of both interleave; every store call succeeds.
WorkSessions == {"u1"}
WorkNext ==
    \/ \E u \in Uids, t \in TicketIds, data \in ValidForms :
          AskQuestion_onSubmit(Conc, u, t, data, TRUE, "sent", Uids)
    \/ \E v \in TDViews, t \in TicketIds : TD_Mount(Conc, v, t, TRUE, TRUE)
    \/ \E v \in TDViews, t \in TicketIds, type \in Kinds : TD_handleVote(Conc, v, t, type)
    \/ \E v \in TDViews, t \in TicketIds : TD_voteWritten(Conc, v, t, TRUE)
    \/ \E v \in TDViews, t \in TicketIds : TD_countWritten(Conc, v, t, TRUE)
    \/ \E s \in WorkSessions : Dash_loadProfile(s, TRUE)
    \/ \E s \in WorkSessions : SD_loadProfile(s, TRUE)
    \/ \E s \in WorkSessions : SD_fetchTickets(s, TRUE)
    \/ \E s \in WorkSessions, t \in TicketIds : SD_handleAssignTicket(s, t, TRUE, TRUE, "sent")
    \/ \E s \in WorkSessions, t \in TicketIds, st \in Statuses :
          SD_handleUpdateStatus(s, t, st, TRUE, TRUE, "sent")

InitWork == Init /\ auth = [v \in VoteViews |-> IF v \in TDViews THEN "u1" ELSE "u2"]
SpecWork == InitWork /\ [][WorkNext]_vars

\* Every store call a vote handler awaits returns: its promise is
\* fulfilled or rejected.
StoreAnswers ==
    /\ \A v \in TDViews, t \in TicketIds :
          /\ WF_vars(\E ok \in BOOLEAN : TD_voteWritten(Conc, v, t, ok))
          /\ WF_vars(\E ok \in BOOLEAN : TD_countWritten(Conc, v, t, ok))
    /\ \A v \in TLViews, t \in TicketIds :
          /\ WF_vars(\E ok \in BOOLEAN : TL_voteWritten(Conc, v, t, ok))
          /\ WF_vars(\E ok \in BOOLEAN : TL_countWritten(Conc, v, t, ok))

\* The interleaved vote workflow of two voters in which the loads succeed,
\* the writes of a toggle may fail, and every store call returns.
NextLive ==
    \/ \E u \in Uids, t \in TicketIds, data \in ValidForms :
          AskQuestion_onSubmit(Conc, u, t, data, TRUE, "sent", Uids)
    \/ \E v \in TDViews, t \in TicketIds : TD_Mount(Conc, v, t, TRUE, TRUE)
    \/ \E v \in TDViews, t \in TicketIds, type \in Kinds : TD_handleVote(Conc, v, t, type)
    \/ \E v \in TDViews, t \in TicketIds, ok \in BOOLEAN : TD_voteWritten(Conc, v, t, ok)
    \/ \E v \in TDViews, t \in TicketIds, ok \in BOOLEAN : TD_countWritten(Conc, v, t, ok)
    \/ \E v \in TLViews : TL_fetchTickets(Conc, v, TRUE, {})
    \/ \E v \in TLViews, t \in TicketIds, type \in Kinds : TL_handleVote(Conc, v, t, type)
    \/ \E v \in TLViews, t \in TicketIds, ok \in BOOLEAN : TL_voteWritten(Conc, v, t, ok)
    \/ \E v \in TLViews, t \in TicketIds, ok \in BOOLEAN : TL_countWritten(Conc, v, t, ok)
SpecLive == InitWork /\ [][NextLive]_vars /\ StoreAnswers

\* Two sessions in their support dashboards: tickets are created, both
\* sessions load, go to their support dashboard, list and assign; the
\* ticket write may fail.
NextAssign ==
    \/ \E u \in Uids, t \in TicketIds, data \in ValidForms :
          AskQuestion_onSubmit(Conc, u, t, data, TRUE, "sent", Uids)
    \/ \E s \in Uids : Dash_loadProfile(s, TRUE)
    \/ \E s \in Uids : SD_loadProfile(s, TRUE)
    \/ \E s \in Uids, view \in {"dashboard", "support"} : Header_onViewChange(s, view)
    \/ \E s \in Uids : SD_fetchTickets(s, TRUE)
    \/ \E s \in Uids, t \in TicketIds, ok \in BOOLEAN :
          SD_handleAssignTicket(s, t, ok, TRUE, "sent")
SpecAssign == InitWork /\ [][NextAssign]_vars

\* The profile documents the loader may meet: none, one without a role
\* field, or one with any value of the role field.
InitLoadUsers ==
    {[u \in Uids |->
        IF r[u] = "absent"
        THEN [exists |-> FALSE, name |-> Null, role |-> Null]
        ELSE [exists |-> TRUE, name |-> StoredName[u], role |-> r[u]]] :
     r \in [Uids -> Roles \cup {Null, "absent"}]}

\* The three components that use the profile loader, in every session:
\* the page is loaded, the views are visited, and each getDoc of a loader
\* succeeds or fails.
NextLoad ==
    \/ \E s \in Uids : Dash_Mount(s)
    \/ \E s \in Uids, ok \in BOOLEAN : Dash_loadProfile(s, ok)
    \/ \E s \in Uids, view \in Views : Header_onViewChange(s, view)
    \/ \E s \in Uids : Dash_onBack(s)
    \/ \E s \in Uids, ok \in BOOLEAN : SD_loadProfile(s, ok)
    \/ \E s \in Uids, ok \in BOOLEAN : Prof_useUserProfile(s, ok)

InitLoad ==
    /\ users \in InitLoadUsers
    /\ notifications = EmptyBag
    /\ dash = [s \in Uids |-> DashFresh]
    /\ sd = [s \in Uids |-> SDNone]
    /\ fw = NoWrite
    /\ replies = [t \in TicketIds |-> << >>]
    /\ reqs = [r \in RequestIds |-> NoRequest]
    /\ ap = [s \in Uids |-> APNone]
    /\ prof = [s \in Uids |-> ProfNone]
    /\ nf = [s \in Uids |-> NFNone]
    /\ tickets = [t \in TicketIds |-> NoDoc]
    /\ votes = [t \in TicketIds |-> {}]
    /\ auth = [v \in VoteViews |-> IF v \in TDViews THEN "u1" ELSE "u2"]
    /\ td = [v \in TDViews |-> TDFresh]
    /\ tl = [v \in TLViews |-> TLFresh]
    /\ hv = [v \in VoteViews |-> NoLog]
    /\ rt = RtNone
    /\ race = RaceNone

SpecLoad == InitLoad /\ [][NextLoad]_vars

\* Reads and notification writes succeed, ticket and role writes may fail;
\* the vote views stay as they start.
InitFlow == InitWork
NextFlow == FlowNext({TRUE}, BOOLEAN, {TRUE})
SpecFlow == InitFlow /\ [][NextFlow]_vars

\* Replies next to role edits: tickets are created, sessions load, navigate
\* and reload, an admin edits the role of a user of EditedUsers, the
\* support dashboard loads its list and replies are sent.  Reads succeed,
\* the reply write may fail.
NextReply ==
    \/ \E u \in Uids, t \in TicketIds, data \in ValidForms :
          AskQuestion_onSubmit(Conc, u, t, data, TRUE, "sent", Uids)
    \/ \E s \in Uids : Dash_Mount(s)
    \/ \E s \in Uids : Dash_loadProfile(s, TRUE)
    \/ \E s \in Uids, view \in Views : Header_onViewChange(s, view)
    \/ \E s \in Uids : Dash_onBack(s)
    \/ \E s \in Uids, target \in EditedUsers, role \in Roles :
          Admin_handleSaveUser(Conc, s, target, role, TRUE)
    \/ \E s \in Uids : AP_fetchData(s, TRUE)
    \/ \E s \in Uids : SD_fetchTickets(s, TRUE)
    \/ \E s \in Uids, t \in TicketIds, h \in Hosts, loaded \in BOOLEAN, ok \in BOOLEAN :
          TD_handleSubmitReply(s, t, h, loaded, ok)
SpecReply == InitFlow /\ [][NextReply]_vars

\* The sessions that work in their AdminPanel and in their Profile, and the
\* views they go to.
AdminSessions == {"u2"}
ProfileSessions == {"u1"}
RoleViews == {"profile", "admin"}

\* The steps by which an upgrade is requested and resolved, other than the
\* answers of the store to a handleRoleRequest call: sessions load,
\* navigate and reload, the Profile loads its form and an upgrade is
\* requested, the admin lists the requests and clicks Approve or Reject.
\* Reads succeed; oks = the outcomes of a write.
RequestSteps(m, oks) ==
    \/ \E s \in Uids : Dash_Mount(s)
    \/ \E s \in Uids : Dash_loadProfile(s, TRUE)
    \/ \E s \in Uids, view \in RoleViews : Header_onViewChange(s, view)
    \/ \E s \in Uids : Dash_onBack(s)
    \/ \E s \in AdminSessions : AP_fetchData(s, TRUE)
    \/ \E s \in AdminSessions, r \in RequestIds, action \in Actions :
          AP_handleRoleRequest(m, s, r, action)
    \/ \E s \in ProfileSessions : Prof_loadProfile(s, TRUE)
    \/ \E s \in ProfileSessions, r \in RequestIds, ok \in oks :
          Prof_handleRoleUpgradeRequest(m, s, r, ok, TRUE)

\* The steps by which a role is edited: the admin saves the role of a user
\* of EditedUsers, the Profile loads its own profile, a role is chosen in
\* its form and the form is saved.
EditSteps(m, oks) ==
    \/ \E s \in AdminSessions, target \in EditedUsers, role \in Roles, ok \in oks :
          Admin_handleSaveUser(m, s, target, role, ok)
    \/ \E s \in ProfileSessions : Prof_useUserProfile(s, TRUE)
    \/ \E s \in ProfileSessions, role \in Roles : Prof_selectRole(s, role)
    \/ \E s \in ProfileSessions, ok \in oks : Prof_onSubmit(m, s, ok)

\* The store answers a write of a handleRoleRequest call.
RoleWrites(oks) ==
    \/ \E s \in AdminSessions, r \in RequestIds, action \in Actions, ok \in oks :
          AP_roleWritten(s, r, action, ok)
    \/ \E s \in AdminSessions, r \in RequestIds, action \in Actions, ok \in oks :
          AP_statusWritten(s, r, action, ok)

\* The profile documents at the start of the role workflow: an end user
\* and an admin.
InitRoleUsers ==
    [u \in Uids |->
        [exists |-> TRUE, name |-> StoredName[u],
         role |-> IF u = "u1" THEN "end-user" ELSE "admin"]]

InitRole ==
    /\ users = InitRoleUsers
    /\ notifications = EmptyBag
    /\ dash = [s \in Uids |-> DashFresh]
    /\ sd = [s \in Uids |-> SDNone]
    /\ fw = NoWrite
    /\ replies = [t \in TicketIds |-> << >>]
    /\ reqs = [r \in RequestIds |-> NoRequest]
    /\ ap = [s \in Uids |-> APNone]
    /\ prof = [s \in Uids |-> ProfNone]
    /\ nf = [s \in Uids |-> NFNone]
    /\ tickets = [t \in TicketIds |-> NoDoc]
    /\ votes = [t \in TicketIds |-> {}]
    /\ auth = [v \in VoteViews |-> IF v \in TDViews THEN "u1" ELSE "u2"]
    /\ td = [v \in TDViews |-> TDFresh]
    /\ tl = [v \in TLViews |-> TLFresh]
    /\ hv = [v \in VoteViews |-> NoLog]
    /\ rt = RtNone
    /\ race = RaceNone

\* Requests are made and resolved; the calls interleave at their awaits
\* and writes may fail.
NextRole == RequestSteps(Conc, BOOLEAN) \/ RoleWrites(BOOLEAN)
SpecRole == InitRole /\ [][NextRole]_vars

\* Requests are made and resolved and roles are edited; a handleRoleRequest
\* call runs to its end before the next handler that writes the store
\* starts; writes may fail.
NextRoleSeq ==
    RequestSteps(SeqM, BOOLEAN) \/ EditSteps(SeqM, BOOLEAN) \/ RoleWrites(BOOLEAN)
SpecRoleSeq == InitRole /\ [][NextRoleSeq]_vars

\* The profile documents at the start of the creation and notification
\* workflow: each user an end user, an agent or an admin.
InitNotifyUsers ==
    {[u \in Uids |-> [exists |-> TRUE, name |-> StoredName[u], role |-> r[u]]] :
        r \in [Uids -> ProfileRoles]}

\* Tickets are created from any form by anyone, signed in or not, and the
\* session of WorkSessions loads, lists, assigns and updates; the ticket write,
\* the notification writes and the e-mail may each fail.
NextNotify ==
    \/ \E u \in Uids \cup {NoUser}, t \in TicketIds, form \in Forms, ok \in BOOLEAN,
          mail \in MailOutcomes, written \in SUBSET Uids :
          AskQuestion_handleSubmit(Conc, u, t, form, ok, mail, written)
    \/ \E s \in WorkSessions : Dash_loadProfile(s, TRUE)
    \/ \E s \in WorkSessions : SD_loadProfile(s, TRUE)
    \/ \E s \in WorkSessions : SD_fetchTickets(s, TRUE)
    \/ \E s \in WorkSessions, t \in TicketIds, ok \in BOOLEAN, okN \in BOOLEAN,
          mail \in MailOutcomes :
          SD_handleAssignTicket(s, t, ok, okN, mail)
    \/ \E s \in WorkSessions, t \in TicketIds, st \in Statuses, ok \in BOOLEAN,
          okN \in BOOLEAN, mail \in MailOutcomes :
          SD_handleUpdateStatus(s, t, st, ok, okN, mail)

InitNotify ==
    /\ users \in InitNotifyUsers
    /\ notifications = EmptyBag
    /\ dash = [s \in Uids |-> DashFresh]
    /\ sd = [s \in Uids |-> SDNone]
    /\ fw = NoWrite
    /\ replies = [t \in TicketIds |-> << >>]
    /\ reqs = [r \in RequestIds |-> NoRequest]
    /\ ap = [s \in Uids |-> APNone]
    /\ prof = [s \in Uids |-> ProfNone]
    /\ nf = [s \in Uids |-> NFNone]
    /\ tickets = [t \in TicketIds |-> NoDoc]
    /\ votes = [t \in TicketIds |-> {}]
    /\ auth = [v \in VoteViews |-> IF v \in TDViews THEN "u1" ELSE "u2"]
    /\ td = [v \in TDViews |-> TDFresh]
    /\ tl = [v \in TLViews |-> TLFresh]
    /\ hv = [v \in VoteViews |-> NoLog]
    /\ rt = RtNone
    /\ race = RaceNone

SpecNotify == InitNotify /\ [][NextNotify]_vars

----------------------------------------------------------------------------
(* NotificationSystem *)

\* The kinds of notification the workflow stores.
NotifTypes == {"ticket_created", "ticket_updated", "status_changed"}

\* The id of a notification document.  The documents of the feed
\* specification differ in recipient, kind or ticket (DistinctDocs), so
\* these three fields stand for the id addDoc has given the document.
NId(d) == <<d.userId, d.type, d.ticketId>>
NIds == Uids \X NotifTypes \X TicketIds

\* query(collection(db,'notifications'), where('userId','==',user.uid), limit(20)):
\* the documents of the signed-in user (fewer than 20 here).
NS_Query(s) == {d \in BagToSet(notifications) : d.userId = s}

\* `if (!notification.read) unreadCount++` over the documents of a snapshot.
NS_CountUnread(docs) == Cardinality({d \in docs : ~d.read})

\* The effect of NotificationSystem runs for the signed-in user s:
\* setLoading(true) and onSnapshot registers the listener.
NS_Mount(s) ==
    /\ ~nf[s].mounted
    /\ nf' = [nf EXCEPT ![s] = [NFNone EXCEPT !.mounted = TRUE, !.listening = TRUE]]
    /\ fw' = NoWrite
    /\ UNCHANGED <<tickets, notifications, flowVars, voteVars, replies, reqs, ap, prof>>

\* The listener's callback: the store delivers the result of the query,
\* at the start and after every change of it, to a feed that has not seen
\* this result yet.  The callback replaces the list and the count.
NS_onSnapshot(s) ==
    /\ nf[s].listening
    /\ nf[s].loading \/ nf[s].snap # NS_Query(s)
    /\ nf' = [nf EXCEPT ![s].notifications = NS_Query(s),
                        ![s].unreadCount = NS_CountUnread(NS_Query(s)),
                        ![s].loading = FALSE,
                        ![s].snap = NS_Query(s)]
    /\ fw' = NoWrite
    /\ UNCHANGED <<tickets, notifications, flowVars, voteVars, replies, reqs, ap, prof>>

\* The listener's error callback: setLoading(false); the listener is over.
NS_onError(s) ==
    /\ nf[s].listening
    /\ nf' = [nf EXCEPT ![s].listening = FALSE, ![s].loading = FALSE]
    /\ fw' = NoWrite
    /\ UNCHANGED <<tickets, notifications, flowVars, voteVars, replies, reqs, ap, prof>>

\* updateDoc with the read flag taken from the other side.
NS_ReadUpdate_Toggle(d) == [d EXCEPT !.read = ~@]

\* updateDoc(doc(db,'notifications',id), { read: true }).
NS_ReadUpdate(d) == [d EXCEPT !.read = TRUE]

\* The collection after updateDoc on the documents with the ids of `ids`.
NS_UpdateDocs(coll, ids) ==
    LET ds == {d \in BagToSet(coll) : NId(d) \in ids}
    IN (coll (-) SetToBag(ds)) (+) SetToBag({NS_ReadUpdate(d) : d \in ds})

\* A call of markAsRead or markAllAsRead whose updateDoc has returned and
\* whose setNotifications / setUnreadCount are still to run.
NS_Pending(kind, id) == [kind |-> kind, id |-> id]

\* "Mark read" on a notification the list shows as unread: markAsRead up
\* to the return of its updateDoc.  ok: whether the store accepts the
\* write; if not, the catch ends the call.
NS_markAsRead(s, id, ok) ==
    /\ nf[s].mounted
    /\ ~nf[s].loading
    /\ \E d \in nf[s].notifications : NId(d) = id /\ ~d.read
    /\ BagCardinality(nf[s].pend) < MaxPending
    /\ IF ok
       THEN /\ notifications' = NS_UpdateDocs(notifications, {id})
            /\ nf' = [nf EXCEPT ![s].pend = @ (+) SetToBag({NS_Pending("one", id)})]
       ELSE UNCHANGED <<notifications, nf>>
    /\ fw' = NoWrite
    /\ UNCHANGED <<tickets, flowVars, voteVars, replies, reqs, ap, prof>>

\* markAsRead after its await: the entry of the list is marked read and
\* the count goes down by one, not below 0.
NS_markAsReadDone(s, id) ==
    /\ BagIn(NS_Pending("one", id), nf[s].pend)
    /\ nf' = [nf EXCEPT
                ![s].pend = @ (-) SetToBag({NS_Pending("one", id)}),
                ![s].notifications =
                    {IF NId(d) = id THEN [d EXCEPT !.read = TRUE] ELSE d : d \in @},
                ![s].unreadCount = Max(0, @ - 1)]
    /\ fw' = NoWrite
    /\ UNCHANGED <<tickets, notifications, flowVars, voteVars, replies, reqs, ap, prof>>

\* "Mark all as read", shown while unreadCount > 0: markAllAsRead up to
\* the return of Promise.all over the updateDoc calls for the unread
\* entries of the list.  ok: whether every write is accepted; if not, some
\* of them may have been applied and the catch ends the call.
NS_markAllAsRead(s, ok) ==
    /\ nf[s].mounted
    /\ nf[s].unreadCount > 0
    /\ BagCardinality(nf[s].pend) < MaxPending
    /\ LET unread == {NId(d) : d \in {e \in nf[s].notifications : ~e.read}}
       IN IF ok
          THEN /\ notifications' = NS_UpdateDocs(notifications, unread)
               /\ nf' = [nf EXCEPT ![s].pend = @ (+) SetToBag({NS_Pending("all", << >>)})]
          ELSE /\ \E done \in SUBSET unread :
                     notifications' = NS_UpdateDocs(notifications, done)
               /\ UNCHANGED nf
    /\ fw' = NoWrite
    /\ UNCHANGED <<tickets, flowVars, voteVars, replies, reqs, ap, prof>>

\* markAllAsRead after its await: every entry is marked read, the count is 0.
NS_markAllAsReadDone(s) ==
    /\ BagIn(NS_Pending("all", << >>), nf[s].pend)
    /\ nf' = [nf EXCEPT
                ![s].pend = @ (-) SetToBag({NS_Pending("all", << >>)}),
                ![s].notifications = {[d EXCEPT !.read = TRUE] : d \in @},
                ![s].unreadCount = 0]
    /\ fw' = NoWrite
    /\ UNCHANGED <<tickets, notifications, flowVars, voteVars, replies, reqs, ap, prof>>

\* The session whose feed is followed.
FeedSessions == {"u2"}

\* The feed next to the workflow that fills it: tickets are created, the
\* agent of WorkSessions loads, lists and assigns, and the feed of
\* FeedSessions is mounted, receives snapshots and marks notifications
\* read.  A mark-read write may fail; the other writes succeed.
NextFeed ==
    \/ \E u \in Uids, t \in TicketIds, data \in ValidForms :
          AskQuestion_onSubmit(Conc, u, t, data, TRUE, "sent", Uids)
    \/ \E s \in WorkSessions : Dash_loadProfile(s, TRUE)
    \/ \E s \in WorkSessions : SD_loadProfile(s, TRUE)
    \/ \E s \in WorkSessions : SD_fetchTickets(s, TRUE)
    \/ \E s \in WorkSessions, t \in TicketIds :
          SD_handleAssignTicket(s, t, TRUE, TRUE, "sent")
    \/ \E s \in FeedSessions : NS_Mount(s)
    \/ \E s \in FeedSessions : NS_onSnapshot(s)
    \/ \E s \in FeedSessions : NS_onError(s)
    \/ \E s \in FeedSessions, id \in NIds, ok \in BOOLEAN : NS_markAsRead(s, id, ok)
    \/ \E s \in FeedSessions, id \in NIds : NS_markAsReadDone(s, id)
    \/ \E s \in FeedSessions, ok \in BOOLEAN : NS_markAllAsRead(s, ok)
    \/ \E s \in FeedSessions : NS_markAllAsReadDone(s)

SpecFeed == InitWork /\ [][NextFeed]_vars

\* No two stored notifications have the same recipient, kind and ticket.
DistinctDocs ==
    \A d, e \in BagToSet(notifications) :
        /\ CopiesIn(d, notifications) = 1
        /\ NId(d) = NId(e) => d = e

----------------------------------------------------------------------------
(* What a view shows for a ticket *)

ViewTicket(v, t) == IF v \in TDViews THEN td[v].ticket ELSE tl[v].tickets[t]
ViewVote(v, t) == IF v \in TDViews THEN td[v].userVote ELSE tl[v].userVotes[t]
ViewOp(v, t) == IF v \in TDViews THEN td[v].op ELSE tl[v].op[t]

VotesOfKind(t, k) == {d \in votes[t] : d.type = k}
VotesOf(t, uid) == {d \in votes[t] : d.id = uid}

----------------------------------------------------------------------------
(* Vote toggle: round trip and switch *)

\* C1: a voter without a vote who toggles "upvote" twice in a row from one
\* view, both toggles completing and nothing else happening in between,
\* leaves the stored counts as they were before the first toggle, and no
\* vote record.
C1_RoundTrip ==
    rt.ph = "done" =>
        \A t \in TicketIds :
            /\ GetVote(t, auth[rt.v]) = Null
            /\ tickets[t].upvotes = rt.up0
            /\ tickets[t].downvotes = rt.down0

\* C2: a completed toggle to the other kind by a voter who holds a vote
\* moves one unit between the stored counters (the decrement floored at 0)
\* and leaves a record of the new kind.
C2_Switch ==
    \A v \in VoteViews, t \in TicketIds :
        (hv[v].st = "ok" /\ hv[v].sVote \in Kinds /\ hv[v].type # hv[v].sVote) =>
            /\ GetVote(t, auth[v]) = hv[v].type
            /\ IF hv[v].type = "downvote"
               THEN /\ tickets[t].upvotes = Max(0, hv[v].sUp - 1)
                    /\ tickets[t].downvotes = hv[v].sDown + 1
               ELSE /\ tickets[t].downvotes = Max(0, hv[v].sDown - 1)
                    /\ tickets[t].upvotes = hv[v].sUp + 1

----------------------------------------------------------------------------
(* Vote counters *)

\* C3: in every reachable state, whatever the interleaving of the toggles
\* and whichever of their writes fail, the stored upvote and downvote
\* counts of every ticket are >= 0.
C3_NonNegative ==
    \A t \in TicketIds : tickets[t].upvotes >= 0 /\ tickets[t].downvotes >= 0

\* A toggle-off of an upvote computed from a displayed count of 0 (the
\* decrement hits the floor) has written its counts.
C3_Floored ==
    \E v \in TDViews, t \in TicketIds :
        /\ td[v].op.pc = "countWrite"
        /\ td[v].op.cur = "upvote" /\ td[v].op.type = "upvote"
        /\ td[v].ticket.upvotes = 0
        /\ tickets[t].exists

\* C4: when no toggle is in flight, after any sequence of completed,
\* non-overlapping toggles from any views, the stored upvote count of every
\* ticket is the number of its upvote records and the stored downvote count
\* the number of its downvote records.
C4_CountersMatchRecords ==
    InFlight = {} =>
        \A t \in TicketIds :
            tickets[t].exists =>
                /\ tickets[t].upvotes = Cardinality(VotesOfKind(t, "upvote"))
                /\ tickets[t].downvotes = Cardinality(VotesOfKind(t, "downvote"))

----------------------------------------------------------------------------
(* Vote records *)

\* The vote-document write of v's toggle on t succeeds in this step.
VoteWriteBy(v, t) ==
    /\ ViewOp(v, t).pc = "voteWrite"
    /\ IF v \in TDViews THEN td'[v].op.pc = "countWrite"
                         ELSE tl'[v].op[t].pc = "countWrite"

C5_AtMostOne ==
    \A t \in TicketIds :
        /\ \A d \in votes[t] : d.type \in Kinds /\ d.id \in Uids
        /\ \A u \in Uids : Cardinality(VotesOf(t, u)) <= 1

C5_Lifecycle ==
    \A t \in TicketIds :
        votes'[t] # votes[t] =>
            \E v \in VoteViews :
                /\ VoteWriteBy(v, t)
                /\ \A u \in Uids \ {auth[v]} : VotesOf(t, u)' = VotesOf(t, u)
                /\ IF ViewOp(v, t).cur = ViewOp(v, t).type
                   THEN VotesOf(t, auth[v])' = {}
                   ELSE VotesOf(t, auth[v])' =
                            {[id |-> auth[v], type |-> ViewOp(v, t).type]}

\* C5: in every reachable state there is at most one vote record per
\* (ticket, voter), of kind upvote or downvote; a step changes the records
\* of a ticket only by a toggle's vote write, which touches the toggling
\* voter's record alone: it leaves exactly one record of the requested kind
\* (created on a first vote, overwritten on a switch) or none (toggle-off).
C5_OneRecordPerVoter == [](C5_AtMostOne) /\ [][C5_Lifecycle]_vars

\* A switch has overwritten the voter's record: the toggle found the other
\* kind in its view and the stored record is now of the requested kind.
C5_Overwritten ==
    \E v \in VoteViews, t \in TicketIds :
        /\ ViewOp(v, t).pc = "countWrite"
        /\ ViewOp(v, t).cur \in Kinds \ {ViewOp(v, t).type}
        /\ VotesOf(t, auth[v]) = {[id |-> auth[v], type |-> ViewOp(v, t).type]}

\* C6: when two first-time voters upvote the same ticket from two views,
\* both having the ticket's current count before either writes, and both
\* toggles complete without error, the stored upvote count is the initial
\* count + 1 while both voters hold an upvote record.
C6_LostUpdate ==
    (race.ph = "both" /\ race.done = 2) =>
        \A t \in TicketIds :
            /\ tickets[t].upvotes = race.c0 + 1
            /\ GetVote(t, auth[race.a]) = "upvote"
            /\ GetVote(t, auth[race.b]) = "upvote"
            /\ Cardinality(VotesOfKind(t, "upvote")) = 2

\* Both overlapping toggles have completed.
C6_BothCompleted ==
    /\ race.ph = "both" /\ race.done = 2
    /\ auth[race.a] # auth[race.b]

----------------------------------------------------------------------------
(* Vote toggle: early returns and failed writes *)

\* handleVote is called in view v in this step.
VoteCalled(v) ==
    \/ hv'[v].st = "noop"
    \/ hv'[v].st = "run" /\ hv[v].st # "run"

\* C7: a vote toggle called in a view with no signed-in user, or for a
\* ticket the view does not hold (not loaded, or it does not exist), writes
\* neither the vote record nor the ticket counts and leaves the state of
\* every view, its vote and counts included, as it was.
C7_NoOpWithoutActorOrTicket ==
    [][\A v \in VoteViews, t \in TicketIds :
          (VoteCalled(v) /\ (auth[v] = NoUser \/ ~ViewTicket(v, t).exists))
              => UNCHANGED <<tickets, votes, td, tl>>]_vars

\* A toggle has just returned early in a view that shows the ticket but
\* has no signed-in user.
C7_ReturnedEarly ==
    \E v \in VoteViews, t \in TicketIds :
        /\ hv[v].st = "noop"
        /\ auth[v] = NoUser
        /\ ViewTicket(v, t).exists

\* What the store and view v hold for ticket t is what the toggle of v
\* found at its start.
AsBefore(v, t) ==
    /\ GetVote(t, auth[v]) = hv[v].sVote
    /\ tickets[t].upvotes = hv[v].sUp
    /\ tickets[t].downvotes = hv[v].sDown
    /\ ViewVote(v, t) = hv[v].vVote
    /\ ViewTicket(v, t).upvotes = hv[v].vUp
    /\ ViewTicket(v, t).downvotes = hv[v].vDown

VoteWritten(v) == IF hv[v].vVote = hv[v].type THEN Null ELSE hv[v].type

----------------------------------------------------------------------------
(* Assignment and status workflow *)

\* C9: the ticket write of assign-to-self by agent A stores assignee A,
\* A's name and status in-progress and leaves every other field of the
\* ticket as it was; the ticket write of an update-status stores the new
\* status and leaves every other field as it was, so that after A's
\* assignment an update to resolved by A keeps A's identifier and name as
\* the assignee (and the vote counts, reply count, title and creator).
C9_AssignThenResolve ==
    /\ fw.kind = "assign" =>
          /\ tickets[fw.t].assignedTo = fw.actor
          /\ tickets[fw.t].assignedToName = fw.name
          /\ tickets[fw.t].status = "in-progress"
          /\ tickets[fw.t] = [fw.before EXCEPT !.assignedTo = fw.actor,
                                               !.assignedToName = fw.name,
                                               !.status = "in-progress"]
    /\ fw.kind = "status" =>
          /\ tickets[fw.t].status = fw.status
          /\ tickets[fw.t].assignedTo = fw.before.assignedTo
          /\ tickets[fw.t].assignedToName = fw.before.assignedToName
          /\ tickets[fw.t].upvotes = fw.before.upvotes
          /\ tickets[fw.t].downvotes = fw.before.downvotes
          /\ tickets[fw.t].replyCount = fw.before.replyCount
          /\ tickets[fw.t].title = fw.before.title
          /\ tickets[fw.t].userId = fw.before.userId
          /\ tickets[fw.t].exists

\* The agent has just set to resolved a voted in-progress ticket assigned
\* to them.
C9_Resolved ==
    /\ fw.kind = "status" /\ fw.status = "resolved"
    /\ fw.before.status = "in-progress"
    /\ fw.before.assignedTo = fw.actor
    /\ fw.before.assignedToName = StoredName[fw.actor]
    /\ fw.before.upvotes + fw.before.downvotes > 0

\* C10: every assign-to-self write and every update-status write to a
\* ticket is made by an actor whose stored profile role is support-agent or
\* admin at the time of the write.
C10_RoleGate ==
    fw.kind \in {"assign", "status"} => fw.role \in {"support-agent", "admin"}

----------------------------------------------------------------------------
(* Replies *)

\* C11: every reply is added by an actor whose stored profile role is
\* support-agent or admin when the reply is stored, and no step changes or
\* removes a reply that is stored: the replies of a ticket only grow at
\* their end.
C11_RepliesByElevatedRole ==
    /\ [](fw.kind = "reply" => fw.role \in {"support-agent", "admin"})
    /\ [][\A t \in TicketIds :
            /\ Len(replies'[t]) >= Len(replies[t])
            /\ SubSeq(replies'[t], 1, Len(replies[t])) = replies[t]]_vars

----------------------------------------------------------------------------
(* Role upgrade requests *)

\* C12: when an admin approves a request that is stored as pending with
\* requestedRole support-agent and both store writes succeed, then at the
\* end of the call the stored status of the request is approved and the
\* stored role of the requesting user's profile is support-agent.
C12_Approval ==
    (/\ fw.kind = "approve"
     /\ fw.status0 = "pending"
     /\ fw.requestedRole = "support-agent")
    => /\ reqs[fw.r].status = "approved"
       /\ users[fw.target].role = "support-agent"

\* The pending request of an end user has just been approved.
C12_Approved ==
    /\ fw.kind = "approve"
    /\ fw.status0 = "pending"
    /\ fw.requestedRole = "support-agent"
    /\ fw.profile0.role = "end-user"
    /\ fw.before.status = "pending"

\* C13: when an admin rejects a request that is stored as pending, then at
\* the end of the call the stored status of the request is rejected, its
\* other fields are as before, and the profile of the requesting user, its
\* role included, is as it was when the call began.
C13_Rejection ==
    (fw.kind = "reject" /\ fw.status0 = "pending")
    => /\ reqs[fw.r].status = "rejected"
       /\ reqs[fw.r] = [fw.before EXCEPT !.status = "rejected"]
       /\ users[fw.target] = fw.profile0

\* The pending request of an end user has just been rejected.
C13_Rejected ==
    /\ fw.kind = "reject"
    /\ fw.status0 = "pending"
    /\ fw.profile0.role = "end-user"
    /\ fw.requestedRole = "support-agent"

\* C14: once the stored status of a request is approved or rejected, no
\* step changes it.
C14_Terminal ==
    [][\A r \in RequestIds :
          reqs[r].status \in {"approved", "rejected"}
             => reqs'[r].status = reqs[r].status]_vars

\* A change of role that raises it: end-user to support-agent or admin,
\* support-agent to admin.
Raised(old, new) ==
    \/ old = "end-user" /\ new \in {"support-agent", "admin"}
    \/ old = "support-agent" /\ new = "admin"

\* The handlers' writes of a profile's role, as fw records them.
RoleWriteKinds == {"saveUser", "saveProfile", "approveRole"}

\* C15: no write made by an actor whose stored role is not admin raises
\* that actor's own stored role.
C15_NoSelfElevation ==
    (/\ fw.kind \in RoleWriteKinds
     /\ fw.target = fw.actor
     /\ Raised(fw.old, fw.new))
    => fw.role = "admin"

----------------------------------------------------------------------------
(* Notifications and e-mail around the ticket writes *)

\* The document an accepted ticket write of the last step has stored.
Written(w) ==
    CASE w.kind = "assign" ->
            [w.before EXCEPT !.assignedTo = w.actor,
                             !.assignedToName = StoredName[w.actor],
                             !.status = "in-progress"]
      [] w.kind = "status" -> [w.before EXCEPT !.status = w.status]
      [] w.kind = "create" ->
            [exists |-> TRUE, title |-> w.form.title, status |-> "open",
             userId |-> w.actor, assignedTo |-> Null, assignedToName |-> Null,
             replyCount |-> 0, upvotes |-> 0, downvotes |-> 0]

\* The last step made a ticket write the store accepted.
TicketWritten ==
    \/ fw.kind \in {"assign", "status"}
    \/ fw.kind = "create" /\ fw.stored

\* A notification write or an e-mail of the last step failed.
SecondaryFailed ==
    \/ \E e \in fw.emails : ~e.sent
    \/ fw.kind \in {"assign", "status"} /\ ~fw.okN
    \/ fw.kind = "create" /\ ~(fw.supportUsers \subseteq fw.written)

\* C16: when a notification write or an e-mail fails after an accepted
\* ticket write (creation, assignment, status update), the ticket document
\* stays as written, no notification is taken back, and no error is shown.
C16_SecondaryFailureKeepsWrite ==
    TicketWritten /\ SecondaryFailed =>
        /\ tickets[fw.t] = Written(fw)
        /\ fw.nbefore \sqsubseteq notifications
        /\ ~fw.reported

\* An agent has assigned a ticket, and the notification was refused and the
\* e-mail not sent.
C16_AssignedUnnotified ==
    /\ fw.kind = "assign"
    /\ ~fw.okN
    /\ tickets[fw.t].assignedTo = fw.actor
    /\ notifications = fw.nbefore

\* The notification an assignment or a status update owes the creator.
Owed(w) ==
    [userId |-> w.before.userId,
     type |-> IF w.kind = "assign" THEN "ticket_updated" ELSE "status_changed",
     ticketId |-> w.t, read |-> FALSE]

\* C17: an accepted assign-to-self or status update whose notification the
\* store accepts adds exactly one notification: to the ticket's creator, of
\* kind ticket_updated (assignment) or status_changed (status), unread.
C17_OneNotificationToCreator ==
    fw.kind \in {"assign", "status"} /\ fw.okN =>
        notifications = fw.nbefore (+) SetToBag({Owed(fw)})

\* An agent has changed the status of somebody else's ticket and the
\* notification was stored.
C17_CreatorNotified ==
    /\ fw.kind = "status"
    /\ fw.okN
    /\ fw.before.userId # fw.actor
    /\ BagIn(Owed(fw), notifications)

\* The form of the last submission breaks a rule of the schema.
BreaksSchema(form) ==
    \/ Len(form.title) < 5
    \/ Len(form.description) < 10
    \/ form.category = ""

\* C18: a submission whose title is shorter than 5 characters, whose
\* description is shorter than 10, or whose category is empty stores no
\* ticket, adds no notification and sends no e-mail.
C18_InvalidFormRejected ==
    fw.kind = "create" /\ BreaksSchema(fw.form) =>
        /\ ~fw.called
        /\ ~fw.stored
        /\ tickets[fw.t] = fw.before
        /\ ~tickets[fw.t].exists
        /\ notifications = fw.nbefore
        /\ fw.emails = {}

\* A signed-in user has submitted a form with a title of four characters,
\* the rest of it valid, with the store ready to accept the ticket.
C18_ShortTitleSubmitted ==
    /\ fw.kind = "create"
    /\ fw.actor # NoUser
    /\ Len(fw.form.title) = 4
    /\ Len(fw.form.description) >= 10
    /\ fw.form.category # ""
    /\ ~tickets[fw.t].exists

\* C19: a ticket stored by the creation handler is open, has vote counts
\* and reply count 0, no assignee, and the actor as its creator; a
\* submission by a visitor who is not signed in stores nothing.
C19_InitialTicket ==
    /\ fw.kind = "create" /\ fw.stored =>
          /\ fw.actor # NoUser
          /\ tickets[fw.t].exists
          /\ tickets[fw.t].status = "open"
          /\ tickets[fw.t].upvotes = 0
          /\ tickets[fw.t].downvotes = 0
          /\ tickets[fw.t].replyCount = 0
          /\ tickets[fw.t].assignedTo = Null
          /\ tickets[fw.t].userId = fw.actor
    /\ fw.kind = "create" /\ fw.actor = NoUser =>
          /\ ~fw.stored
          /\ tickets[fw.t] = fw.before
          /\ notifications = fw.nbefore
          /\ fw.emails = {}

\* A signed-in user has created a ticket.
C19_Created ==
    /\ fw.kind = "create"
    /\ fw.stored
    /\ tickets[fw.t].userId \in Uids

\* The number of ticket_created notifications for u about ticket t.
CreatedCount(u, t) ==
    CopiesIn(Notification(u, "ticket_created", t), notifications)

\* C20: after a creation in which the lookup and every notification write
\* succeed, each profile that was support-agent or admin at the lookup has
\* exactly one ticket_created notification for the ticket and every other
\* profile has none, whatever became of the e-mail.
C20_FanOut ==
    fw.kind = "create" /\ fw.stored /\ fw.written = Uids =>
        /\ fw.supportUsers =
              {u \in Uids : users[u].exists
                             /\ users[u].role \in {"support-agent", "admin"}}
        /\ \A u \in Uids :
              CreatedCount(u, fw.t) = IF u \in fw.supportUsers THEN 1 ELSE 0
        /\ notifications =
              fw.nbefore (+)
              SetToBag({Notification(u, "ticket_created", fw.t) : u \in fw.supportUsers})

\* A ticket was created while one profile was a support agent and another
\* an end-user, the e-mail failed and the notifications were stored.
C20_FannedOutWithoutMail ==
    /\ fw.kind = "create"
    /\ fw.stored
    /\ fw.written = Uids
    /\ \E e \in fw.emails : ~e.sent
    /\ \E u, v \in Uids :
          /\ users[u].role = "support-agent"
          /\ users[v].role = "end-user"
          /\ CreatedCount(u, fw.t) = 1
          /\ CreatedCount(v, fw.t) = 0

----------------------------------------------------------------------------
(* The notification feed *)

\* A notification with this id is stored / is stored as read.
Stored(id) == \E d \in BagToSet(notifications) : NId(d) = id
StoredRead(id) == \E d \in BagToSet(notifications) : NId(d) = id /\ d.read

\* C21: a stored notification stays stored with its recipient, kind and
\* ticket, the collection never shrinks, and a read flag that is true stays
\* true under every markAsRead and markAllAsRead call.
C21_ReadOnlyFlips ==
    [][/\ BagCardinality(notifications') >= BagCardinality(notifications)
       /\ \A id \in NIds :
             /\ Stored(id) => Stored(id)'
             /\ StoredRead(id) => StoredRead(id)']_vars

\* A notification has been marked read twice: two markAsRead calls on it
\* have written and wait, and the store holds it as read.
C21_MarkedTwice ==
    \E s \in FeedSessions, id \in NIds :
        /\ CopiesIn(NS_Pending("one", id), nf[s].pend) = 2
        /\ StoredRead(id)

\* C28: in every state of the feed the local unreadCount is the number of
\* entries of the local list whose read flag is false.
C28_CountMatchesList ==
    \A s \in FeedSessions :
        nf[s].unreadCount = NS_CountUnread(nf[s].notifications)

----------------------------------------------------------------------------
(* Vote toggle: what it reads *)

\* The counts the handler of view v computes from the counts up, down and
\* the vote cur for a toggle of kind type.
CountsFrom(v, up, down, cur, type) ==
    IF v \in TDViews THEN TD_NewCounts(up, down, cur, type)
                      ELSE TL_NewCounts(up, down, cur, type)

\* C22: a running vote toggle has decided its case from the voter's vote
\* record as stored when it was called, and the counts it is about to
\* write are those computed from the ticket's counts as stored then.
C22_ReadsStore ==
    \A v \in VoteViews, t \in TicketIds :
        (hv[v].st = "run" /\ ViewOp(v, t).pc # "idle") =>
            LET n == CountsFrom(v, hv[v].sUp, hv[v].sDown, hv[v].sVote, hv[v].type)
            IN /\ ViewOp(v, t).cur = hv[v].sVote
               /\ ViewOp(v, t).newUpvotes = n.upvotes
               /\ ViewOp(v, t).newDownvotes = n.downvotes

----------------------------------------------------------------------------
(* Vote toggle next to the assignment and status workflow *)

\* The count write of the toggle of view v on ticket t is applied in this step.
CountWriteBy(v, t) ==
    /\ td[v].op.pc = "countWrite"
    /\ td'[v].op.pc = "idle"
    /\ tickets'[t] # tickets[t] \/ td'[v].ticket # td[v].ticket

\* A handler of the support dashboard writes ticket t in this step while
\* the toggle of view v is in flight.
WorkflowWriteDuring(v, t) ==
    /\ td[v].op.pc # "idle"
    /\ fw'.kind \in {"assign", "status"}
    /\ fw'.t = t

\* C23 as stated: there is a lost update.  When the count write of a
\* toggle is applied to a ticket whose status or assignee has been written
\* since the view loaded it, the ticket afterwards lacks that status or
\* assignee (it has the view's again) or lacks the toggle's counts.
C23_LostUpdate ==
    [][\A v \in TDViews, t \in TicketIds :
          (/\ CountWriteBy(v, t)
           /\ \/ tickets[t].status # td[v].ticket.status
              \/ tickets[t].assignedTo # td[v].ticket.assignedTo)
          => \/ tickets'[t].status # tickets[t].status
             \/ tickets'[t].assignedTo # tickets[t].assignedTo
             \/ tickets'[t].upvotes # td[v].op.newUpvotes
             \/ tickets'[t].downvotes # td[v].op.newDownvotes]_vars

\* C23 amended: neither write is lost.  The count write of a toggle
\* stores the toggle's counts and leaves status, assignee and every other
\* field as stored at that moment; a status or assignment write applied
\* while a toggle is in flight stores the new status (and assignee) and
\* leaves the stored counts as they are.
C23_BothWritesKept ==
    [][\A v \in TDViews, t \in TicketIds :
          /\ CountWriteBy(v, t) =>
                tickets'[t] = [tickets[t] EXCEPT !.upvotes = td[v].op.newUpvotes,
                                                 !.downvotes = td[v].op.newDownvotes]
          /\ WorkflowWriteDuring(v, t) =>
                /\ tickets'[t].status = fw'.status
                /\ fw'.kind = "assign" => tickets'[t].assignedTo = fw'.actor
                /\ tickets'[t].upvotes = tickets[t].upvotes
                /\ tickets'[t].downvotes = tickets[t].downvotes]_vars

\* A status update has just been written to a voted ticket while a toggle
\* on it waits between its vote write and its count write.
C23_StatusDuringToggle ==
    \E v \in TDViews :
        /\ td[v].op.pc = "countWrite"
        /\ fw.kind \in {"assign", "status"}
        /\ fw.before.upvotes + fw.before.downvotes > 0
        /\ tickets[fw.t].status # td[v].ticket.status

\* C24: an assign-to-self write is applied whatever assignee the ticket has
\* in the store: after it the stored assignee is the actor of this write
\* and the status is in-progress, also when another agent had assigned the
\* ticket to themself in the meantime.
C24_LastWriterWins ==
    fw.kind = "assign" =>
        /\ tickets[fw.t].assignedTo = fw.actor
        /\ tickets[fw.t].assignedToName = StoredName[fw.actor]
        /\ tickets[fw.t].status = "in-progress"

\* An agent has assigned to themself a ticket that the store held as
\* assigned to the other agent.
C24_SecondAssignment ==
    /\ fw.kind = "assign"
    /\ fw.before.assignedTo \in Uids \ {fw.actor}
    /\ fw.before.status = "in-progress"

----------------------------------------------------------------------------
(* E-mail addressing *)

\* C25: the e-mail dispatched for a ticket creation is addressed to the
\* support inbox, and the e-mail dispatched for an assignment or a status
\* change is addressed to the e-mail address of the ticket's creator.
C25_Addressing ==
    /\ fw.kind = "create" =>
          \A e \in fw.emails : e.to = SupportAddress
    /\ fw.kind \in {"assign", "status"} =>
          \A e \in fw.emails : e.to = UserEmail[fw.before.userId]

----------------------------------------------------------------------------
(* Replies and the ticket document *)

\* C26: a reply step appends one reply of the actor to the replies of the
\* ticket and leaves every ticket document as it is (status, assignee,
\* vote counts, replyCount), so the stored replyCount of every ticket is
\* the 0 of its creation however many replies are stored.
C26_ReplyLeavesTicket ==
    /\ [](\A t \in TicketIds : tickets[t].exists => tickets[t].replyCount = 0)
    /\ [][\A t \in TicketIds :
            (fw'.kind = "reply" /\ fw'.t = t) =>
                /\ tickets' = tickets
                /\ Len(replies'[t]) = Len(replies[t]) + 1
                /\ SubSeq(replies'[t], 1, Len(replies[t])) = replies[t]
                /\ replies'[t][Len(replies'[t])].userId = fw'.actor]_vars

\* A second reply has just been stored under a ticket whose replyCount
\* is still 0.
C26_TwoReplies ==
    /\ fw.kind = "reply"
    /\ Len(replies[fw.t]) = 2
    /\ tickets[fw.t].replyCount = 0

----------------------------------------------------------------------------
(* Approval: the order of its writes *)

\* The role write of an approval of request r by session s is refused in
\* this step: the call is over without having reached its status write.
RoleWriteRefused(s, r) ==
    \E op \in AP_Op(s, r, "approve") :
        /\ op.pc = "role"
        /\ AP_Op(s, r, "approve")' = {}

\* C27: the step that stores the status approved of a request finds the
\* role of the requesting user already written to the requested role and
\* does not write it itself; and a step in which the role write of an
\* approval is refused leaves the request as it is, its status pending
\* included, and ends the call.
C27_RoleBeforeStatus ==
    [][\A r \in RequestIds :
          /\ (reqs[r].status # "approved" /\ reqs'[r].status = "approved") =>
                /\ users[reqs[r].userId].role = reqs[r].requestedRole
                /\ users' = users
          /\ \A s \in AdminSessions :
                RoleWriteRefused(s, r) =>
                    /\ reqs' = reqs
                    /\ users' = users
                    /\ \A op \in ap'[s].ops : op.r # r \/ op.action # "approve"]_vars

\* An approval has just stored the status approved of a request that was
\* pending, for a user who was an end user when Approve was clicked.
C27_StatusAfterRole ==
    /\ fw.kind = "approve"
    /\ fw.before.status = "pending"
    /\ fw.profile0.role = "end-user"
    /\ users[fw.target].role = "support-agent"
    /\ reqs[fw.r].status = "approved"

----------------------------------------------------------------------------
(* Vote toggle: the in-flight marker *)

\* The in-flight marker of view v for ticket t is set.
Marked(v, t) ==
    IF v \in TDViews THEN td[v].voting ELSE t \in tl[v].votingTickets

\* C29: the marker of a view is set exactly while a toggle of it is in
\* flight (it never stays set after the call has ended), and, the store
\* calls returning, a marker that is set is eventually cleared, whether
\* the writes succeed or one of them fails.
C29_MarkerReleased ==
    /\ [](\A v \in VoteViews, t \in TicketIds :
            Marked(v, t) <=> ViewOp(v, t).pc # "idle")
    /\ \A v \in VoteViews, t \in TicketIds :
            Marked(v, t) ~> ~Marked(v, t)

\* The markers of a TicketDetail view and of a TicketList view are set at
\* the same moment, one toggle waiting for its vote write and the other
\* for its count write.
C29_BothMarked ==
    \E v \in TDViews, w \in TLViews, t \in TicketIds :
        /\ Marked(v, t) /\ Marked(w, t)
        /\ td[v].op.pc = "voteWrite"
        /\ tl[w].op[t].pc = "countWrite"

----------------------------------------------------------------------------
(* The profile loader *)

\* The loader whose profile was p has answered for user s with profile q.
\* The role it yields is end-user when the document is absent or has no
\* role field; it is support-agent or admin only when that is the value of
\* the stored role field; and it is the stored role or end-user.
LoaderAnswer(s, p, q) ==
    (~p.loaded /\ q.loaded) =>
        /\ (~users[s].exists \/ users[s].role = Null) => q.role = "end-user"
        /\ q.role \in {"support-agent", "admin"} =>
              users[s].exists /\ users[s].role = q.role
        /\ q.role = "end-user" \/ (users[s].exists /\ q.role = users[s].role)

\* C30: the profile loader yields end-user when the profile document is
\* absent, has no role field, or cannot be read; a profile that is not
\* there (null) counts as end-user in the dashboard; and the loader yields
\* support-agent or admin only when the stored role field has that value
\* when it is read.
C30_LeastPrivilege ==
    /\ [](\A s \in Uids :
            ~dash[s].profile.loaded => UserRole(dash[s].profile) = "end-user")
    /\ [][\A s \in Uids :
            /\ LoaderAnswer(s, dash[s].profile, dash'[s].profile)
            /\ LoaderAnswer(s, sd[s].profile, sd'[s].profile)
            /\ LoaderAnswer(s, prof[s].profile, prof'[s].profile)]_vars

\* The dashboard of a user stored as admin holds a loaded profile with the
\* role end-user (the read has failed), next to the dashboard of a user
\* without a profile document.
C30_FellBack ==
    \E s, u \in Uids :
        /\ users[s].exists /\ users[s].role = "admin"
        /\ dash[s].profile.loaded /\ dash[s].profile.role = "end-user"
        /\ ~users[u].exists
        /\ dash[u].profile.loaded /\ dash[u].profile.role = "end-user"

====
